---- MODULE Spec2Model ----
(***************************************************************************)
(* Order checkout / stock pipeline of the e-commerce backend.              *)
(*                                                                         *)
(* Two copies of the order router exist in the repository:                 *)
(*   Routes/Order.js      - the router mounted by server.js (inline mail)  *)
(*   unnamed/part_004     - a second copy of the router (queued mail)      *)
(* The handlers of Routes/Order.js are the actions Capture*, Cod*, Pay*,   *)
(* Cancel*, Status*; those of the second copy are AltCapture*, AltCod*.    *)
(* Every await of a handler is one step: the store operation it waits for  *)
(* together with the synchronous code that follows it up to the next await.*)
(***************************************************************************)
EXTENDS Integers, Sequences, FiniteSets, TLC

(* ------------------------------ bounds -------------------------------- *)
MaxReq == 2          \* requests of the checkout specifications
MaxLifeReq == 3      \* requests of the order-lifecycle specification
MaxStock == 2        \* largest initial product.stock
MaxQty == 2          \* largest quantity of a line item
MaxClients == 2      \* Redis clients getRedis() may create
MaxCatReq == 3       \* requests of the catalog specifications
MaxClock == 3        \* last value of the clock

(* --------------------------- program constants ------------------------ *)
JobAttempts == 5     \* defaultJobOptions.attempts of the email queue
LockAfter == 5       \* "Lock account after 5 failed attempts"
LockSpan == 2        \* the 2 hours of a lock, in steps of the clock

(* ------------------------------ universe ------------------------------ *)
Products == {"p1", "p2"}
NoProduct == "p0"                     \* an id for which findById returns null
SizeNames == {"A", "B"}               \* names in product.sizes
ReqSizes == SizeNames \cup {"Z"}      \* "Z" is in no product's sizes
Users == {"u1", "u2"}
Secret == "RAZORPAY_SECRET"
Statuses == {"pending", "processing", "shipped", "delivered", "cancelled"}

Price == [p \in Products |-> IF p = "p1" THEN 10 ELSE 20]

Item(p, s, q) == [product |-> p, size |-> s, quantity |-> q]

(* ------------------------------ state --------------------------------- *)
VARIABLES
  stock,      \* Product.stock            : [Products -> Int]
  sizes,      \* Product.sizes[].stock    : [Products -> [SizeNames -> Int]]
  active,     \* Product.active           : [Products -> BOOLEAN]
  orders,     \* the Order collection     : sequence of order documents
  cart,       \* the Cart collection      : [Users -> the document findOne
              \* returns for the user (or NoCart), with docs, the number
              \* of Cart documents the collection holds for the user]
  jobs,       \* the email queue          : [order index -> job state]
  sent,       \* order indices whose confirmation mail was delivered
  req,        \* the requests in flight   : [request id -> request record]
  mailOk,     \* the environment: the outcomes (TRUE = success) the template
              \* renderer, the mail transport and the queue store can have
  stock0,     \* product.stock at start (history, never read by the handlers)
  price,      \* Product.price, .discountPrice : [Products -> [price, discountPrice]]
  listed,     \* the ids of the documents of the Product collection
  client,     \* utils/redis.js: let client (Null or a client id)
  isReady,    \* utils/redis.js: let isReady
  conn,       \* the Redis clients made so far : [ClientIds -> connection]
  cache,      \* the keys held by the Redis server, with their values
  account,    \* the User document of u1: loginAttempts, lockUntil, addresses
  clock       \* Date.now()

\* The state no order or cart handler reads or writes.
users == <<account, clock>>
aside == <<listed, client, isReady, conn, cache, users>>
vars == <<stock, sizes, active, orders, cart, jobs, sent, req, mailOk, stock0, price,
          aside>>
store == <<stock, sizes, active, orders, cart>>

NoCart == [exists |-> FALSE, items |-> <<>>, totalItems |-> 0, totalPrice |-> 0, v |-> 0,
           docs |-> 0]
NoResp == [code |-> 0, message |-> ""]
NoJob == [state |-> "none", attemptsMade |-> 0]

(* ------------------------- pure helper functions ---------------------- *)

\* crypto.createHmac("sha256", key).update(msg).digest("hex"): modelled as an
\* ideal keyed function, equal only for equal key and equal message.
Hmac(key, msg) == <<"hmac-sha256", key, msg>>

\* `${razorpayOrderId}|${paymentId}`
SignedMessage(razorpayOrderId, paymentId) == <<razorpayOrderId, "|", paymentId>>

\* expectedSignature !== signature  (the request passes when this is TRUE)
MutSignatureValid(body) == body.signature[1] = "hmac-sha256"
SignatureValid(body) ==
  Hmac(Secret, SignedMessage(body.razorpayOrderId, body.paymentId)) = body.signature

RECURSIVE SumQty(_)
SumQty(items) ==
  IF items = <<>> THEN 0 ELSE items[1].quantity + SumQty(Tail(items))

RECURSIVE SumPrice(_)
SumPrice(items) ==
  IF items = <<>> THEN 0
  ELSE Price[items[1].product] * items[1].quantity + SumPrice(Tail(items))

\* A saved cart document: totals as cartSchema.pre('save') leaves them.
SavedCart(items) ==
  [exists |-> TRUE, items |-> items,
   totalItems |-> SumQty(items), totalPrice |-> SumPrice(items), v |-> 0,
   docs |-> 1]

\* { $set: { items: [], totalItems: 0, totalPrice: 0 } } without upsert
ClearedCart(c) ==
  IF c.exists
  THEN [exists |-> TRUE, items |-> <<>>, totalItems |-> 0, totalPrice |-> 0, v |-> c.v,
        docs |-> c.docs]
  ELSE c

\* product.stock < item.quantity
Insufficient(p, q) == stock[p] < q

\* !product || !product.active
Unavailable(p) == p \notin Products \/ ~active[p]

(* ------------------------------ requests ------------------------------ *)
NoBody == [paymentId |-> "", razorpayOrderId |-> "", signature |-> <<>>]

\* Amounts of an order are counted in hundredths of the currency unit.
Hundredths(x) == 100 * x

\* req.body.itemsPrice, taxPrice, shippingPrice, totalPrice; 0 stands for a
\* field that is 0 or left out (both are falsy in "itemsPrice || calculated").
NoPrices ==
  [itemsPrice |-> 0, taxPrice |-> 0, shippingPrice |-> 0, totalPrice |-> 0]

IdleReq ==
  [kind |-> "none", pc |-> "idle", user |-> "u1", body |-> NoBody,
   supplied |-> "list", items |-> <<>>, i |-> 0, order |-> 0, flag |-> FALSE,
   dirty |-> FALSE, arg |-> "", resp |-> NoResp, fx |-> {}, prices |-> NoPrices]

Resp(code, message) == [code |-> code, message |-> message]

\* res.status(code).json(...) followed by return: the handler ends and its
\* loop index and in-memory flags go out of scope.
Reply(r, code, message) ==
  req' = [req EXCEPT ![r].pc = "done", ![r].resp = Resp(code, message),
                     ![r].i = 0, ![r].flag = FALSE, ![r].dirty = FALSE]

Orders == 1..Len(orders)

\* Requests start in the order of their ids (the ids are interchangeable).
CanStart(r) ==
  /\ req[r].kind = "none"
  /\ IF r = 1 THEN TRUE ELSE req[r - 1].kind # "none"

(* ----------------------- steps shared by the handlers ----------------- *)

\* One iteration of the validation loop of Routes/Order.js:
\*   const product = await Product.findById(item.product); two early returns;
\*   items.push(...)
ValidateItem(r) ==
  LET item == req[r].items[req[r].i] IN
  IF Unavailable(item.product)
    THEN Reply(r, 400, "Product not available")
  ELSE IF Insufficient(item.product, item.quantity)
    THEN Reply(r, 400, "Insufficient stock")
  ELSE req' = [req EXCEPT ![r].i = @ + 1,
                          ![r].pc = IF req[r].i = Len(req[r].items)
                                    THEN "create" ELSE "validate"]

\* The price breakdown of the second router copy's POST /:
\*   calculatedItemsPrice = items.reduce(price * quantity)
\*   calculatedTaxPrice = calculatedItemsPrice * 0.08
\*   calculatedShippingPrice = calculatedItemsPrice > 100 ? 0 : 10
\* (the unit price of a line is the product's price)
CalculatedPrices(items) ==
  LET calculatedItemsPrice == Hundredths(SumPrice(items))
      calculatedTaxPrice == (calculatedItemsPrice * 8) \div 100
      calculatedShippingPrice ==
        IF calculatedItemsPrice > Hundredths(100) THEN 0 ELSE Hundredths(10)
  IN [itemsPrice |-> calculatedItemsPrice,
      taxPrice |-> calculatedTaxPrice,
      shippingPrice |-> calculatedShippingPrice,
      totalPrice |-> calculatedItemsPrice + calculatedTaxPrice + calculatedShippingPrice]

\* a || b on numbers
OrElse(a, b) == IF a # 0 THEN a ELSE b

\* The itemsPrice, taxPrice, shippingPrice and totalPrice a handler passes to
\* Order.create: Routes/Order.js and the second copy's /capture pass the
\* fields of req.body, the second copy's POST / passes
\* "itemsPrice || calculatedItemsPrice" and so on.
OrderPrices(r) ==
  IF req[r].kind = "altCod"
  THEN LET c == CalculatedPrices(req[r].items) IN
       [f \in DOMAIN NoPrices |-> OrElse(req[r].prices[f], c[f])]
  ELSE req[r].prices

\* Order.create({...}) of a handler; the new document is the last of orders.
NewOrder(r, method, paid, status) ==
  [user |-> req[r].user, orderItems |-> req[r].items, paymentMethod |-> method,
   isPaid |-> paid, status |-> status, isDelivered |-> FALSE, deliveredAt |-> 0,
   prices |-> OrderPrices(r),
   verified |-> paid,   \* (history) created after a signature check succeeded
   by |-> r, decs |-> [k \in 1..Len(req[r].items) |-> 0],
   incs |-> [k \in 1..Len(req[r].items) |-> 0]]

CreateOrder(r, method, paid, status, nextpc) ==
  /\ orders' = Append(orders, NewOrder(r, method, paid, status))
  /\ req' = [req EXCEPT ![r].order = Len(orders) + 1, ![r].i = 1,
                        ![r].pc = nextpc, ![r].fx = @ \cup {"order"}]

\* Product.findByIdAndUpdate(id, { $inc: { stock: d } }): an atomic,
\* unconditional increment of product.stock (no validators run on $inc).
IncStock(p, d) ==
  stock' = IF p \in Products THEN [stock EXCEPT ![p] = @ + d] ELSE stock

\* One iteration of a "for (const item of ...) await findByIdAndUpdate" loop
\* over the lines of order o, adding sign * quantity to product.stock.
StockLoopStep(r, o, sign, nextpc) ==
  LET k == req[r].i
      item == orders[o].orderItems[k]
  IN /\ IncStock(item.product, sign * item.quantity)
     /\ orders' = IF sign < 0
                  THEN [orders EXCEPT ![o].decs[k] = @ + 1]
                  ELSE [orders EXCEPT ![o].incs[k] = @ + 1]
     /\ req' = [req EXCEPT ![r].i = @ + 1,
                           ![r].pc = IF k = Len(orders[o].orderItems)
                                     THEN nextpc ELSE req[r].pc,
                           ![r].fx = @ \cup {"stock"}]

\* await Cart.findOneAndUpdate({ user }, { $set: {items: [], ...} })
ClearCart(r, nextpc) ==
  /\ cart' = [cart EXCEPT ![req[r].user] = ClearedCart(@)]
  /\ req' = [req EXCEPT ![r].pc = nextpc, ![r].fx = @ \cup {"cart"}]

\* catch (err) { console.error(...) } of the mail block, then the
\* "return res.json({ success: true, order })" that follows it.
MutAfterMailError(r, code) == Reply(r, 500, "order failed")
AfterMailError(r, code) == Reply(r, code, "success")

\* await ejs.renderFile(...); juice(htmlRaw): may throw.
RenderInvoice(r, code) ==
  /\ \E ok \in mailOk :
       IF ok THEN req' = [req EXCEPT ![r].pc = "sendMail"]
       ELSE AfterMailError(r, code)
  /\ UNCHANGED <<store, jobs, sent, stock0, mailOk, price, aside>>

\* await transporter.sendMail(...) settles: delivered, or rejected and caught.
\* A transport that never settles takes no step.
SendMailSettles(r, code) ==
  /\ \E ok \in mailOk :
       IF ok
       THEN /\ sent' = sent \cup {req[r].order}
            /\ req' = [req EXCEPT ![r].pc = "done", ![r].i = 0, ![r].fx = @ \cup {"mail"},
                                  ![r].resp = Resp(code, "success")]
       ELSE /\ AfterMailError(r, code)
            /\ UNCHANGED sent
  /\ UNCHANGED <<store, jobs, stock0, mailOk, price, aside>>

At(r, kind, pc) == req[r].kind = kind /\ req[r].pc = pc

(* ------------------ Routes/Order.js: POST /capture -------------------- *)

CaptureBody(sig) ==
  [paymentId |-> "pay_1", razorpayOrderId |-> "order_1", signature |-> sig]

\* Request arrival and the synchronous prefix: signature verification.
CaptureStart(r, u, sig, supplied, list) ==
  /\ CanStart(r)
  /\ LET new == [IdleReq EXCEPT !.kind = "capture", !.user = u,
                                !.body = CaptureBody(sig),
                                !.supplied = supplied, !.items = list]
     IN req' = [req EXCEPT ![r] =
          IF ~SignatureValid(new.body)
            THEN [new EXCEPT !.pc = "done",
                             !.resp = Resp(400, "Invalid payment signature")]
          ELSE IF supplied = "absent"   \* for (... of undefined) throws
            THEN [new EXCEPT !.pc = "done",
                             !.resp = Resp(500, "Payment captured but order failed")]
          ELSE [new EXCEPT !.pc = "validate", !.i = 1]]
  /\ UNCHANGED <<store, jobs, sent, stock0, mailOk, price, aside>>

\* (variant used to test C4: each line is reserved as soon as it is validated)
MutCaptureValidate(r) ==
  /\ At(r, "capture", "validate")
  /\ ValidateItem(r)
  /\ LET item == req[r].items[req[r].i] IN
       IF Unavailable(item.product) \/ Insufficient(item.product, item.quantity)
       THEN stock' = stock
       ELSE IncStock(item.product, 0 - item.quantity)
  /\ UNCHANGED <<sizes, active, orders, cart, jobs, sent, stock0, mailOk, price, aside>>

CaptureValidate(r) ==
  /\ At(r, "capture", "validate")
  /\ ValidateItem(r)
  /\ UNCHANGED <<store, jobs, sent, stock0, mailOk, price, aside>>

CaptureCreate(r) ==
  /\ At(r, "capture", "create")
  /\ CreateOrder(r, "razorpay", TRUE, "processing", "reduce")
  /\ UNCHANGED <<stock, sizes, active, cart, jobs, sent, stock0, mailOk, price, aside>>

CaptureReduce(r) ==
  /\ At(r, "capture", "reduce")
  /\ StockLoopStep(r, req[r].order, -1, "clearCart")
  /\ UNCHANGED <<sizes, active, cart, jobs, sent, stock0, mailOk, price, aside>>

CaptureClearCart(r) ==
  /\ At(r, "capture", "clearCart")
  /\ ClearCart(r, "render")
  /\ UNCHANGED <<stock, sizes, active, orders, jobs, sent, stock0, mailOk, price, aside>>

CaptureRender(r) == At(r, "capture", "render") /\ RenderInvoice(r, 200)

CaptureSendMail(r) == At(r, "capture", "sendMail") /\ SendMailSettles(r, 200)

(* ------------------ Routes/Order.js: POST / (COD) --------------------- *)

\* validationResult(req), then paymentMethod !== "cod"
CodStart(r, u, addressOk, method, supplied, list) ==
  /\ CanStart(r)
  /\ LET new == [IdleReq EXCEPT !.kind = "cod", !.user = u, !.arg = method,
                                !.supplied = supplied, !.items = list]
     IN req' = [req EXCEPT ![r] =
          IF ~addressOk
            THEN [new EXCEPT !.pc = "done", !.resp = Resp(400, "validation errors")]
          ELSE IF method # "cod"
            THEN [new EXCEPT !.pc = "done",
                             !.resp = Resp(400, "Invalid payment method for this route")]
          ELSE IF supplied = "absent"
            THEN [new EXCEPT !.pc = "done",
                             !.resp = Resp(500, "COD order creation failed")]
          ELSE [new EXCEPT !.pc = "validate", !.i = 1]]
  /\ UNCHANGED <<store, jobs, sent, stock0, mailOk, price, aside>>

CodValidate(r) ==
  /\ At(r, "cod", "validate")
  /\ ValidateItem(r)
  /\ UNCHANGED <<store, jobs, sent, stock0, mailOk, price, aside>>

CodCreate(r) ==
  /\ At(r, "cod", "create")
  /\ CreateOrder(r, "cod", FALSE, "pending", "reduce")
  /\ UNCHANGED <<stock, sizes, active, cart, jobs, sent, stock0, mailOk, price, aside>>

CodReduce(r) ==
  /\ At(r, "cod", "reduce")
  /\ StockLoopStep(r, req[r].order, -1, "clearCart")
  /\ UNCHANGED <<sizes, active, cart, jobs, sent, stock0, mailOk, price, aside>>

CodClearCart(r) ==
  /\ At(r, "cod", "clearCart")
  /\ ClearCart(r, "render")
  /\ UNCHANGED <<stock, sizes, active, orders, jobs, sent, stock0, mailOk, price, aside>>

CodRender(r) == At(r, "cod", "render") /\ RenderInvoice(r, 201)

CodSendMail(r) == At(r, "cod", "sendMail") /\ SendMailSettles(r, 201)

(* ------------------------- the email queue ---------------------------- *)

\* emailQueue.add('order_invoice', { orderId }) is not awaited: the job is
\* stored unless the queue's backing store is unavailable, in which case the
\* returned promise rejects after the handler has answered.
Enqueue(o) ==
  \E stored \in mailOk :
    jobs' = IF stored THEN [jobs EXCEPT ![o] = [state |-> "waiting", attemptsMade |-> 0]]
            ELSE jobs

\* workers/emailWorker.js: emailQueue.process('order_invoice', ...) runs one
\* attempt of a waiting job; a failed attempt is retried until
\* defaultJobOptions.attempts attempts were made.
ProcessInvoice(o) ==
  /\ jobs[o].state = "waiting"
  /\ o \in Orders
  /\ \E ok \in mailOk :
       IF ok
       THEN /\ sent' = sent \cup {o}
            /\ jobs' = [jobs EXCEPT ![o].state = "completed"]
       ELSE /\ jobs' = [jobs EXCEPT ![o].attemptsMade = @ + 1,
                                    ![o].state = IF jobs[o].attemptsMade + 1 >= JobAttempts
                                                 THEN "failed" ELSE "waiting"]
            /\ UNCHANGED sent
  /\ UNCHANGED <<store, req, stock0, mailOk, price, aside>>

(* ------------- second copy of the router: POST /capture --------------- *)

AltCaptureStart(r, u, sig, supplied, list) ==
  /\ CanStart(r)
  /\ LET new == [IdleReq EXCEPT !.kind = "altCapture", !.user = u,
                                !.body = CaptureBody(sig),
                                !.supplied = supplied, !.items = list]
     IN req' = [req EXCEPT ![r] =
          IF ~SignatureValid(new.body)
            THEN [new EXCEPT !.pc = "done",
                             !.resp = Resp(400, "Invalid payment signature")]
          ELSE IF supplied = "absent"
            THEN [new EXCEPT !.pc = "done",
                             !.resp = Resp(500, "Payment captured but order creation failed")]
          ELSE [new EXCEPT !.pc = "validate", !.i = 1]]
  /\ UNCHANGED <<store, jobs, sent, stock0, mailOk, price, aside>>

\* if (!product || !product.active || product.stock < item.quantity)
AltCaptureValidate(r) ==
  /\ At(r, "altCapture", "validate")
  /\ LET item == req[r].items[req[r].i] IN
       IF Unavailable(item.product) \/ Insufficient(item.product, item.quantity)
         THEN Reply(r, 400, "Insufficient stock")
       ELSE req' = [req EXCEPT ![r].i = @ + 1,
                               ![r].pc = IF req[r].i = Len(req[r].items)
                                         THEN "create" ELSE "validate"]
  /\ UNCHANGED <<store, jobs, sent, stock0, mailOk, price, aside>>

AltCaptureCreate(r) ==
  /\ At(r, "altCapture", "create")
  /\ CreateOrder(r, "razorpay", TRUE, "processing", "reduce")
  /\ UNCHANGED <<stock, sizes, active, cart, jobs, sent, stock0, mailOk, price, aside>>

AltCaptureReduce(r) ==
  /\ At(r, "altCapture", "reduce")
  /\ StockLoopStep(r, req[r].order, -1, "clearCart")
  /\ UNCHANGED <<sizes, active, cart, jobs, sent, stock0, mailOk, price, aside>>

\* await Cart.findOneAndUpdate(...); emailQueue.add(...); res.json(...)
AltCaptureClearCart(r) ==
  /\ At(r, "altCapture", "clearCart")
  /\ cart' = [cart EXCEPT ![req[r].user] = ClearedCart(@)]
  /\ Enqueue(req[r].order)
  /\ req' = [req EXCEPT ![r].pc = "done", ![r].i = 0, ![r].fx = @ \cup {"cart"},
                        ![r].resp = Resp(200, "success")]
  /\ UNCHANGED <<stock, sizes, active, orders, sent, stock0, mailOk, price, aside>>

(* --------------- second copy of the router: POST / -------------------- *)

\* validationResult(req); let items = orderItems;
\* if (!items || items.length === 0) -> the cart is read next
AltCodStart(r, u, addressOk, method, supplied, list) ==
  /\ CanStart(r)
  /\ LET new == [IdleReq EXCEPT !.kind = "altCod", !.user = u, !.arg = method,
                                !.supplied = supplied, !.items = list]
     IN req' = [req EXCEPT ![r] =
          IF ~addressOk
            THEN [new EXCEPT !.pc = "done", !.resp = Resp(400, "validation errors")]
          ELSE IF supplied # "list"
            THEN [new EXCEPT !.pc = "loadCart"]
          ELSE [new EXCEPT !.pc = "validate", !.i = 1]]
  /\ UNCHANGED <<store, jobs, sent, stock0, mailOk, price, aside>>

\* await Cart.findOne({ user }).populate('items.product'); items = cart.items.map(...)
AltCodLoadCart(r) ==
  /\ At(r, "altCod", "loadCart")
  /\ LET c == cart[req[r].user] IN
       IF ~c.exists \/ c.items = <<>>
         THEN Reply(r, 400, "No items to order")
       ELSE req' = [req EXCEPT ![r].items = c.items, ![r].i = 1, ![r].pc = "validate"]
  /\ UNCHANGED <<store, jobs, sent, stock0, mailOk, price, aside>>

AltCodValidate(r) ==
  /\ At(r, "altCod", "validate")
  /\ LET item == req[r].items[req[r].i] IN
       IF Unavailable(item.product)
         THEN Reply(r, 400, "Product is not available")
       ELSE IF Insufficient(item.product, item.quantity)
         THEN Reply(r, 400, "Insufficient stock")
       ELSE req' = [req EXCEPT ![r].i = @ + 1,
                               ![r].pc = IF req[r].i = Len(req[r].items)
                                         THEN "create" ELSE "validate"]
  /\ UNCHANGED <<store, jobs, sent, stock0, mailOk, price, aside>>

\* The isPaid and status this handler leaves to the Order schema.
DefaultIsPaid == FALSE
DefaultStatus == "pending"

\* await Order.create({...}); if (!orderItems) the cart is cleared next,
\* otherwise emailQueue.add(...) and res.status(201) follow at once.
AltCodCreate(r) ==
  /\ At(r, "altCod", "create")
  /\ orders' = Append(orders, NewOrder(r, req[r].arg, DefaultIsPaid, DefaultStatus))
  /\ IF req[r].supplied = "absent"
       THEN /\ req' = [req EXCEPT ![r].order = Len(orders) + 1, ![r].pc = "clearCart",
                                  ![r].fx = @ \cup {"order"}]
            /\ UNCHANGED jobs
       ELSE /\ Enqueue(Len(orders) + 1)
            /\ req' = [req EXCEPT ![r].order = Len(orders) + 1, ![r].pc = "done", ![r].i = 0,
                                  ![r].fx = @ \cup {"order"},
                                  ![r].resp = Resp(201, "success")]
  /\ UNCHANGED <<stock, sizes, active, cart, sent, stock0, mailOk, price, aside>>

AltCodClearCart(r) ==
  /\ At(r, "altCod", "clearCart")
  /\ cart' = [cart EXCEPT ![req[r].user] = ClearedCart(@)]
  /\ Enqueue(req[r].order)
  /\ req' = [req EXCEPT ![r].pc = "done", ![r].i = 0, ![r].fx = @ \cup {"cart"},
                        ![r].resp = Resp(201, "success")]
  /\ UNCHANGED <<stock, sizes, active, orders, sent, stock0, mailOk, price, aside>>

(* ------------------ Routes/Order.js: PUT /:id/pay --------------------- *)

\* await Order.findById(id); 404 / 401; the in-memory assignments
PayLoad(r, u, o) ==
  /\ CanStart(r)
  /\ LET new == [IdleReq EXCEPT !.kind = "pay", !.user = u, !.order = o] IN
     req' = [req EXCEPT ![r] =
       IF o \notin Orders
         THEN [new EXCEPT !.pc = "done", !.resp = Resp(404, "Order not found")]
       ELSE IF orders[o].user # u
         THEN [new EXCEPT !.pc = "done", !.resp = Resp(401, "Not authorized")]
       ELSE [new EXCEPT !.pc = "reduce", !.i = 1,
                        !.dirty = (orders[o].status # "processing")]]
  /\ UNCHANGED <<store, jobs, sent, stock0, mailOk, price, aside>>

PayReduce(r) ==
  /\ At(r, "pay", "reduce")
  /\ StockLoopStep(r, req[r].order, -1, "save")
  /\ UNCHANGED <<sizes, active, cart, jobs, sent, stock0, mailOk, price, aside>>

\* await order.save(): writes the modified paths isPaid, paidAt, status,
\* paymentResult
PaySave(r) ==
  /\ At(r, "pay", "save")
  /\ orders' = [orders EXCEPT ![req[r].order].isPaid = TRUE,
                              ![req[r].order].status =
                                 IF req[r].dirty THEN "processing" ELSE @]
  /\ Reply(r, 200, "Order updated to paid")
  /\ UNCHANGED <<stock, sizes, active, cart, jobs, sent, stock0, mailOk, price, aside>>

(* ------------------ Routes/Order.js: PUT /:id/cancel ------------------ *)

\* PUT /:id/cancel without the shipped / delivered guard.
MutCancelLoad(r, u, o) ==
  /\ CanStart(r)
  /\ LET new == [IdleReq EXCEPT !.kind = "cancel", !.user = u, !.order = o] IN
     req' = [req EXCEPT ![r] =
       IF o \notin Orders
         THEN [new EXCEPT !.pc = "done", !.resp = Resp(404, "Order not found")]
       ELSE IF orders[o].user # u
         THEN [new EXCEPT !.pc = "done", !.resp = Resp(401, "Not authorized")]
       ELSE [new EXCEPT !.pc = IF orders[o].isPaid THEN "restore" ELSE "save",
                        !.i = 1, !.flag = orders[o].isPaid,
                        !.dirty = (orders[o].status # "cancelled")]]
  /\ UNCHANGED <<store, jobs, sent, stock0, mailOk, price, aside>>
CancelLoad(r, u, o) ==
  /\ CanStart(r)
  /\ LET new == [IdleReq EXCEPT !.kind = "cancel", !.user = u, !.order = o] IN
     req' = [req EXCEPT ![r] =
       IF o \notin Orders
         THEN [new EXCEPT !.pc = "done", !.resp = Resp(404, "Order not found")]
       ELSE IF orders[o].user # u
         THEN [new EXCEPT !.pc = "done", !.resp = Resp(401, "Not authorized")]
       ELSE IF orders[o].status \in {"shipped", "delivered"}
         THEN [new EXCEPT !.pc = "done", !.resp = Resp(400, "Cannot cancel shipped orders")]
       ELSE [new EXCEPT !.pc = IF orders[o].isPaid THEN "restore" ELSE "save",
                        !.i = 1, !.flag = orders[o].isPaid,
                        !.dirty = (orders[o].status # "cancelled")]]
  /\ UNCHANGED <<store, jobs, sent, stock0, mailOk, price, aside>>

CancelRestore(r) ==
  /\ At(r, "cancel", "restore")
  /\ StockLoopStep(r, req[r].order, 1, "save")
  /\ UNCHANGED <<sizes, active, cart, jobs, sent, stock0, mailOk, price, aside>>

CancelSave(r) ==
  /\ At(r, "cancel", "save")
  /\ orders' = [orders EXCEPT ![req[r].order].status =
                                 IF req[r].dirty THEN "cancelled" ELSE @]
  /\ Reply(r, 200, "Order cancelled successfully")
  /\ UNCHANGED <<stock, sizes, active, cart, jobs, sent, stock0, mailOk, price, aside>>

(* ------------------ Routes/Order.js: PUT /:id/status ------------------ *)

StatusLoad(r, o, status) ==
  /\ CanStart(r)
  /\ LET new == [IdleReq EXCEPT !.kind = "status", !.user = "admin",
                                !.order = o, !.arg = status] IN
     req' = [req EXCEPT ![r] =
       IF o \notin Orders
         THEN [new EXCEPT !.pc = "done", !.resp = Resp(404, "Order not found")]
       ELSE [new EXCEPT !.pc = "save", !.dirty = (orders[o].status # status)]]
  /\ UNCHANGED <<store, jobs, sent, stock0, mailOk, price, aside>>

\* Date.now() of request r: a stamp no other request gives (0: not set).
Now(r) == r

\* (variant used to test C26: the status is saved without the stamping)
MutStatusSave(r) ==
  /\ At(r, "status", "save")
  /\ orders' = [orders EXCEPT ![req[r].order].status =
                                 IF req[r].dirty THEN req[r].arg ELSE @]
  /\ Reply(r, 200, "Order status updated")
  /\ UNCHANGED <<stock, sizes, active, cart, jobs, sent, stock0, mailOk, price, aside>>
\* if (status === 'delivered') { order.isDelivered = true;
\* order.deliveredAt = Date.now() }  await order.save(): the modified paths
StatusSave(r) ==
  /\ At(r, "status", "save")
  /\ orders' = [orders EXCEPT ![req[r].order].status =
                                 IF req[r].dirty THEN req[r].arg ELSE @,
                              ![req[r].order].isDelivered =
                                 IF req[r].arg = "delivered" THEN TRUE ELSE @,
                              ![req[r].order].deliveredAt =
                                 IF req[r].arg = "delivered" THEN Now(r) ELSE @]
  /\ Reply(r, 200, "Order status updated")
  /\ UNCHANGED <<stock, sizes, active, cart, jobs, sent, stock0, mailOk, price, aside>>

(* ------------- Models/Cart.js and the cart router (part_003) ---------- *)

\* A body field or argument that is not given.
Undefined == "undefined"

\* `${item.product}_${item.size || 'NOSIZE'}`
KeyOf(item) ==
  <<item.product, IF item.size = Undefined THEN "NOSIZE" ELSE item.size>>

\* The loop of cartSchema.pre('save') over one more item: the first line
\* with the item's key takes its quantity, otherwise the item is a new line.
MergeInto(acc, item) ==
  IF \E k \in 1..Len(acc) : KeyOf(acc[k]) = KeyOf(item)
  THEN LET k == CHOOSE j \in 1..Len(acc) : KeyOf(acc[j]) = KeyOf(item)
       IN [acc EXCEPT ![k].quantity = @ + item.quantity]
  ELSE Append(acc, item)

\* this.items = Array.from(map.values())
RECURSIVE MergeFrom(_, _)
MergeFrom(acc, items) ==
  IF items = <<>> THEN acc ELSE MergeFrom(MergeInto(acc, items[1]), Tail(items))
MergeLines(items) == MergeFrom(<<>>, items)

\* (variant used to test C19: the list price, whatever the discountPrice)
MutCartPrice(p) == price[p].price
\* i.product.discountPrice || i.product.price || 0
CartPrice(p) ==
  IF price[p].discountPrice # 0 THEN price[p].discountPrice ELSE price[p].price

RECURSIVE CartTotalPrice(_)
CartTotalPrice(items) ==
  IF items = <<>> THEN 0
  ELSE CartPrice(items[1].product) * items[1].quantity + CartTotalPrice(Tail(items))

\* cartSchema.methods.addItem(productId, quantity, size): the changed items,
\* the kind of change ("set" of a line's quantity or "push" of a line) and
\* the index of the line.
AddItem(items, productId, quantity, size) ==
  IF \E k \in 1..Len(items) : items[k].product = productId /\ items[k].size = size
  THEN LET k == CHOOSE j \in 1..Len(items) :
                  /\ items[j].product = productId /\ items[j].size = size
                  /\ \A i \in 1..(j - 1) :
                       ~(items[i].product = productId /\ items[i].size = size)
       IN [items |-> [items EXCEPT ![k].quantity = @ + quantity],
           op |-> "set", at |-> k]
  ELSE [items |-> Append(items, Item(productId, size, quantity)),
        op |-> "push", at |-> Len(items) + 1]

\* "Merging logic" of router.post("/add"): the same find / += / push, inline.
MergingLogic(items, productId, size, quantity) ==
  AddItem(items, productId, quantity, size)

\* The document a handler holds after Cart.findOne, or new Cart({...}).
LoadedCart(c) ==
  IF c.exists
  THEN [isNew |-> FALSE, items |-> c.items, v |-> c.v, op |-> "none", at |-> 0]
  ELSE [isNew |-> TRUE, items |-> <<>>, v |-> 0, op |-> "none", at |-> 0]

NoDoc == [isNew |-> FALSE, items |-> <<>>, v |-> 0, op |-> "none", at |-> 0]

\* (variant used to test C21: a collection without the unique index)
MutInsertRejected(c) == FALSE
\* user: { unique: true }: the insert of a second document with the same
\* user fails with a duplicate key error.
InsertRejected(c) == c.exists

\* await cart.save() on the in-memory document m while the collection holds
\* c. The pre('save') hook merges the lines of m and computes the totals
\* from the populated products; then the changed paths are written:
\*   a new document is inserted (user is unique: a second insert fails);
\*   an items array replaced by the hook or by clearCart is $set whole,
\*     with __v checked and incremented;
\*   a pushed line is sent as $push, with __v incremented and not checked;
\*   a changed quantity is sent as $set of items.<at>.quantity, with __v
\*     checked and not incremented.
\* The result is the stored document, or ok = FALSE when save() rejects.
SaveCart(c, m) ==
  LET merged == MergeLines(m.items)
      totalItems == SumQty(merged)
      totalPrice == CartTotalPrice(merged)
      written(items, v, docs) ==
        [ok |-> TRUE,
         cart |-> [exists |-> TRUE, items |-> items, totalItems |-> totalItems,
                   totalPrice |-> totalPrice, v |-> v, docs |-> docs],
         doc |-> [exists |-> TRUE, items |-> merged, totalItems |-> totalItems,
                  totalPrice |-> totalPrice, v |-> v, docs |-> docs]]
      stored(items, v) == written(items, v, c.docs)
      inserted ==
        IF c.exists THEN [written(c.items, c.v, c.docs + 1) EXCEPT
                            !.cart.totalItems = c.totalItems,
                            !.cart.totalPrice = c.totalPrice]
        ELSE written(merged, 0, c.docs + 1)
      rejected == [ok |-> FALSE, cart |-> c, doc |-> c]
  IN IF m.isNew
       THEN IF InsertRejected(c) THEN rejected ELSE inserted
     ELSE IF merged # m.items \/ m.op = "replace"
       THEN IF c.v # m.v THEN rejected ELSE stored(merged, c.v + 1)
     ELSE IF m.op = "push"
       THEN stored(Append(c.items, m.items[m.at]), c.v + 1)
     ELSE IF m.op = "set"
       THEN IF c.v # m.v \/ m.at \notin DOMAIN c.items THEN rejected
            ELSE stored([c.items EXCEPT ![m.at].quantity = m.items[m.at].quantity], c.v)
     ELSE stored(c.items, c.v)

\* await cart.save(); await cart.populate(...); res.status(200).json({ cart })
\* or the catch: res.status(500)
SaveAndReply(r) ==
  LET u == req[r].user
      out == SaveCart(cart[u], req[r].body.doc)
  IN /\ cart' = [cart EXCEPT ![u] = out.cart]
     /\ req' = [req EXCEPT ![r].pc = "done",
                           ![r].body.doc = out.doc,
                           ![r].resp = IF out.ok THEN Resp(200, "cart")
                                       ELSE Resp(500, "Server error")]

AddBody(productId, size, quantity, color) ==
  [productId |-> productId, size |-> size, quantity |-> quantity,
   color |-> color, doc |-> NoDoc]

\* router.post("/add") of the copy headed "server/Routes/Cart.js"
AddStart(r, u, productId, size, quantity) ==
  /\ CanStart(r)
  /\ LET new == [IdleReq EXCEPT !.kind = "add", !.user = u,
                                !.body = AddBody(productId, size, quantity, Undefined)]
     IN req' = [req EXCEPT ![r] =
          IF productId = Undefined \/ size = Undefined
            THEN [new EXCEPT !.pc = "done",
                             !.resp = Resp(400, "Product and size are required")]
          ELSE [new EXCEPT !.pc = "findCart"]]
  /\ UNCHANGED <<store, jobs, sent, stock0, mailOk, price, aside>>

\* let cart = await Cart.findOne(...); if (!cart) new Cart; merging logic
AddFindCart(r) ==
  /\ At(r, "add", "findCart")
  /\ LET b == req[r].body
         loaded == LoadedCart(cart[req[r].user])
         m == MergingLogic(loaded.items, b.productId, b.size, b.quantity)
     IN req' = [req EXCEPT ![r].pc = "save",
                           ![r].body.doc = [loaded EXCEPT !.items = m.items,
                                                           !.op = m.op, !.at = m.at]]
  /\ UNCHANGED <<store, jobs, sent, stock0, mailOk, price, aside>>

AddSave(r) ==
  /\ At(r, "add", "save")
  /\ SaveAndReply(r)
  /\ UNCHANGED <<stock, sizes, active, orders, jobs, sent, stock0, mailOk, price, aside>>

\* router.post('/add') of the other copy: validators
OldAddStart(r, u, productId, size, quantity, color) ==
  /\ CanStart(r)
  /\ LET new == [IdleReq EXCEPT !.kind = "oldAdd", !.user = u,
                                !.body = AddBody(productId, size, quantity, color)]
     IN req' = [req EXCEPT ![r] =
          IF productId = Undefined \/ quantity < 1
            THEN [new EXCEPT !.pc = "done", !.resp = Resp(400, "validation errors")]
          ELSE [new EXCEPT !.pc = "findProduct"]]
  /\ UNCHANGED <<store, jobs, sent, stock0, mailOk, price, aside>>

\* const product = await Product.findById(productId); 404; 400
OldAddFindProduct(r) ==
  /\ At(r, "oldAdd", "findProduct")
  /\ LET b == req[r].body IN
       IF Unavailable(b.productId)
         THEN Reply(r, 404, "Product not found or inactive")
       ELSE IF Insufficient(b.productId, b.quantity)
         THEN Reply(r, 400, "Insufficient stock available")
       ELSE req' = [req EXCEPT ![r].pc = "findCart"]
  /\ UNCHANGED <<store, jobs, sent, stock0, mailOk, price, aside>>

\* let cart = await Cart.findOne(...); if (!cart) new Cart;
\* cart.addItem(productId, quantity, color, size): the third argument is the
\* size parameter of cartSchema.methods.addItem
OldAddFindCart(r) ==
  /\ At(r, "oldAdd", "findCart")
  /\ LET b == req[r].body
         loaded == LoadedCart(cart[req[r].user])
         m == AddItem(loaded.items, b.productId, b.quantity, b.color)
     IN req' = [req EXCEPT ![r].pc = "save",
                           ![r].body.doc = [loaded EXCEPT !.items = m.items,
                                                           !.op = m.op, !.at = m.at]]
  /\ UNCHANGED <<store, jobs, sent, stock0, mailOk, price, aside>>

OldAddSave(r) ==
  /\ At(r, "oldAdd", "save")
  /\ SaveAndReply(r)
  /\ UNCHANGED <<stock, sizes, active, orders, jobs, sent, stock0, mailOk, price, aside>>

\* router.get('/'): let cart = await Cart.findOne(...).populate(...); the
\* stored document is the answer, or a new cart is saved first.
GetCartFind(r, u) ==
  /\ CanStart(r)
  /\ LET new == [IdleReq EXCEPT !.kind = "getCart", !.user = u,
                                !.body = AddBody(Undefined, Undefined, 0, Undefined)]
         c == cart[u]
     IN req' = [req EXCEPT ![r] =
          IF c.exists
            THEN [new EXCEPT !.pc = "done", !.body.doc = c, !.resp = Resp(200, "cart")]
          ELSE [new EXCEPT !.pc = "save", !.body.doc = LoadedCart(c)]]
  /\ UNCHANGED <<store, jobs, sent, stock0, mailOk, price, aside>>

GetCartSave(r) ==
  /\ At(r, "getCart", "save")
  /\ SaveAndReply(r)
  /\ UNCHANGED <<stock, sizes, active, orders, jobs, sent, stock0, mailOk, price, aside>>

\* cartSchema.methods.clearCart on a loaded document: this.items = []
ClearCartDoc(m) ==
  [m EXCEPT !.items = <<>>, !.op = IF m.items = <<>> THEN "none" ELSE "replace"]

\* router.delete('/clear'): const cart = await Cart.findOne(...); 404;
\* cart.clearCart()
ClearFind(r, u) ==
  /\ CanStart(r)
  /\ LET new == [IdleReq EXCEPT !.kind = "clear", !.user = u,
                                !.body = AddBody(Undefined, Undefined, 0, Undefined)]
         c == cart[u]
     IN req' = [req EXCEPT ![r] =
          IF ~c.exists
            THEN [new EXCEPT !.pc = "done", !.resp = Resp(404, "Cart not found")]
          ELSE [new EXCEPT !.pc = "save", !.body.doc = ClearCartDoc(LoadedCart(c))]]
  /\ UNCHANGED <<store, jobs, sent, stock0, mailOk, price, aside>>

\* await cart.save(); res.status(200).json({ message: 'Cart cleared', cart })
ClearSave(r) ==
  /\ At(r, "clear", "save")
  /\ SaveAndReply(r)
  /\ UNCHANGED <<stock, sizes, active, orders, jobs, sent, stock0, mailOk, price, aside>>

\* Routes/ProductsEnhanced.js router.put('/:id'): Product.findByIdAndUpdate
\* with a body that sets price and discountPrice
UpdateProductPrice(p, newPrice, newDiscountPrice) ==
  /\ price' = [price EXCEPT ![p] = [price |-> newPrice,
                                    discountPrice |-> newDiscountPrice]]
  /\ price' # price
  /\ UNCHANGED <<store, jobs, sent, req, stock0, mailOk, aside>>

(* ------------------------ utils/redis.js ------------------------------ *)

Null == 0
ClientIds == 1..MaxClients

\* A client: the status of its connection, the state of the promise
\* client.connect() returned, and the last of its 'ready', 'error' and
\* 'end' events (history, never read by the code).
NoConn == [status |-> "none", connect |-> "none", last |-> "none"]

\* new Redis(url, { lazyConnect: true, ... }) followed by client.connect()
FreshClient ==
  CHOOSE c \in ClientIds :
    conn[c].status = "none" /\ \A d \in 1..(c - 1) : conn[d].status # "none"

\* getRedis() can run: it makes no client, or there is one left to make.
CanGetRedis == client # Null \/ \E c \in ClientIds : conn[c].status = "none"

\* function getRedis(): the value returned, and client and the clients
\* after the call.
GetRedis ==
  IF client # Null /\ isReady
    THEN [ret |-> client, client |-> client, conn |-> conn]
  ELSE LET c == IF client = Null THEN FreshClient ELSE client
           made == IF client = Null
                   THEN [conn EXCEPT ![c] = [status |-> "connecting",
                                             connect |-> "pending", last |-> "none"]]
                   ELSE conn
       IN [ret |-> IF ~isReady THEN Null ELSE c, client |-> c, conn |-> made]

\* client.on("ready", () => { isReady = true }): the connection, or a
\* reconnection, of client c is established; a pending connect() resolves.
OnReady(c) ==
  /\ conn[c].status \in {"connecting", "closed"}
  /\ conn' = [conn EXCEPT ![c].status = "ready", ![c].last = "ready",
                           ![c].connect = IF @ = "pending" THEN "resolved" ELSE @]
  /\ isReady' = TRUE
  /\ UNCHANGED <<store, jobs, sent, req, stock0, mailOk, price, listed, client, cache, users>>

\* client.on("error", () => { isReady = false }): the socket of client c
\* fails and closes; a pending connect() rejects.
OnError(c) ==
  /\ conn[c].status \in {"connecting", "ready", "closed"}
  /\ conn' = [conn EXCEPT ![c].status = "closed", ![c].last = "error",
                           ![c].connect = IF @ = "pending" THEN "rejected" ELSE @]
  /\ isReady' = FALSE
  /\ UNCHANGED <<store, jobs, sent, req, stock0, mailOk, price, listed, client, cache, users>>

\* The server closes the connection of client c: 'close' is emitted, for
\* which getRedis() registers no listener; the client will reconnect.
OnClose(c) ==
  /\ conn[c].status = "ready"
  /\ conn' = [conn EXCEPT ![c].status = "closed"]
  /\ UNCHANGED <<store, jobs, sent, req, stock0, mailOk, price, listed, client,
                 isReady, cache, users>>

\* client.on("end", () => { isReady = false }): client c gives up.
OnEnd(c) ==
  /\ conn[c].status = "closed"
  /\ conn' = [conn EXCEPT ![c].status = "end", ![c].last = "end"]
  /\ isReady' = FALSE
  /\ UNCHANGED <<store, jobs, sent, req, stock0, mailOk, price, listed, client, cache, users>>

\* client.connect().catch(() => { client = null; isReady = false })
ConnectCatch(c) ==
  /\ conn[c].connect = "rejected"
  /\ conn' = [conn EXCEPT ![c].connect = "caught"]
  /\ client' = Null
  /\ isReady' = FALSE
  /\ UNCHANGED <<store, jobs, sent, req, stock0, mailOk, price, listed, cache, users>>

(* ------------- Routes/ProductsEnhanced.js: the cached catalog --------- *)

Category == [p \in Products |-> IF p = "p1" THEN "kurta" ELSE "saree"]

CategoriesKey == <<"product_categories">>
ProductsKey == <<"products", "{}">>          \* `products:${JSON.stringify(req.query)}`
ProductKey(p) == <<"product", p>>            \* `product:${id}`
Keys == {CategoriesKey, ProductsKey} \cup { ProductKey(p) : p \in Products }

\* The cache with no key.
Flushed == [k \in {} |-> Null]
\* redis.setex(key, ttl, value)
Setex(c, key, value) ==
  [k \in DOMAIN c \cup {key} |-> IF k = key THEN value ELSE c[k]]
\* redis.del(key)
Del(c, key) == [k \in DOMAIN c \ {key} |-> c[k]]

\* The catalog-visible fields of a product document.
Snapshot(p) ==
  [id |-> p, stock |-> stock[p], active |-> active[p], price |-> price[p].price]

\* The documents a filter { active: true } matches.
Visible == { p \in listed : active[p] }

\* JSON.stringify(value) and JSON.parse(text): the numbers, booleans and
\* strings of a value come back as they were.
Stringify(value) == <<"json", value>>
Parse(text) == text[2]

\* The locals of a catalog read: cacheKey, redis, whether redis.get was
\* written to the connection (sent) and found the key (hit), the value in
\* hand, and what the response carries.
CatBody(key, redis) ==
  [key |-> key, redis |-> redis, sent |-> FALSE, hit |-> FALSE,
   has |-> FALSE, value |-> {}, cached |-> FALSE]

\* The commands of a client succeed only while its connection is ready
\* (enableOfflineQueue: false).
Writeable(c) == conn[c].status = "ready"

\* res.json({ success: true, ..., cached }) with the value sent
Send(r, code, value, cached) ==
  req' = [req EXCEPT ![r].pc = "done", ![r].resp = Resp(code, "catalog"),
                     ![r].body.has = TRUE, ![r].body.value = value,
                     ![r].body.cached = cached]

\* Arrival of GET /categories, GET / or GET /:id: const redis = getRedis();
\* if (redis) redis.get(cacheKey) is called. The commands of one connection
\* are served in the order they are written, so the key is looked up now;
\* the reply comes in a later step.
ReadStart(r, kind, p) ==
  /\ CanStart(r)
  /\ CanGetRedis
  /\ LET g == GetRedis
         key == IF kind = "categories" THEN CategoriesKey
                ELSE IF kind = "list" THEN ProductsKey ELSE ProductKey(p)
         written == g.ret # Null /\ g.conn[g.ret].status = "ready"
         hit == written /\ key \in DOMAIN cache
     IN /\ client' = g.client
        /\ conn' = g.conn
        /\ req' = [req EXCEPT ![r] =
              [IdleReq EXCEPT !.kind = kind, !.arg = p,
                              !.body = [CatBody(key, g.ret) EXCEPT
                                          !.sent = written, !.hit = hit,
                                          !.value = IF hit THEN Parse(cache[key]) ELSE @],
                              !.pc = IF g.ret # Null THEN "get" ELSE "find"]]
  /\ UNCHANGED <<store, jobs, sent, stock0, mailOk, price, listed, isReady, cache, users>>

\* const cached = await redis.get(cacheKey); if (cached) return res.json(...)
\* or the catch: res.status(500)
ReadGet(r) ==
  /\ req[r].kind \in {"categories", "list", "product"} /\ req[r].pc = "get"
  /\ LET b == req[r].body IN
       IF ~b.sent \/ ~Writeable(b.redis) THEN Reply(r, 500, "cache")
       ELSE IF b.hit THEN Send(r, 200, b.value, TRUE)
       ELSE req' = [req EXCEPT ![r].pc = "find"]
  /\ UNCHANGED <<store, jobs, sent, stock0, mailOk, price, aside>>

\* After the store read: if (redis) redis.setex(...) is sent, else the
\* value is the answer.
Found(r, value) ==
  IF req[r].body.redis # Null
  THEN req' = [req EXCEPT ![r].pc = "setex", ![r].body.has = TRUE,
                          ![r].body.value = value]
  ELSE Send(r, 200, value, FALSE)

\* await Product.distinct("category", { active: true })
CategoriesFind(r) ==
  /\ At(r, "categories", "find")
  /\ Found(r, { Category[p] : p \in Visible })
  /\ UNCHANGED <<store, jobs, sent, stock0, mailOk, price, aside>>

\* const products = await Product.find({ active: true })...lean()
ListFind(r) ==
  /\ At(r, "list", "find")
  /\ req' = [req EXCEPT ![r].pc = "count",
                        ![r].body.value = { Snapshot(p) : p \in Visible }]
  /\ UNCHANGED <<store, jobs, sent, stock0, mailOk, price, aside>>

\* const total = await Product.countDocuments(filter); const response = ...
ListCount(r) ==
  /\ At(r, "list", "count")
  /\ Found(r, [products |-> req[r].body.value, totalItems |-> Cardinality(Visible)])
  /\ UNCHANGED <<store, jobs, sent, stock0, mailOk, price, aside>>

\* const product = await Product.findOne({ _id: id, active: true }).lean();
\* if (!product) return res.status(404)
ProductFind(r) ==
  /\ At(r, "product", "find")
  /\ IF req[r].arg \in Visible THEN Found(r, Snapshot(req[r].arg))
     ELSE Reply(r, 404, "not found")
  /\ UNCHANGED <<store, jobs, sent, stock0, mailOk, price, aside>>

\* await redis.setex(cacheKey, ttl, JSON.stringify(value)); res.json(...)
\* or the catch: res.status(500)
ReadSetex(r) ==
  /\ req[r].kind \in {"categories", "list", "product"} /\ req[r].pc = "setex"
  /\ LET b == req[r].body IN
       IF ~Writeable(b.redis)
         THEN Reply(r, 500, "cache") /\ cache' = cache
       ELSE /\ cache' = Setex(cache, b.key, Stringify(b.value))
            /\ Send(r, 200, b.value, FALSE)
  /\ UNCHANGED <<store, jobs, sent, stock0, mailOk, price, listed, client, isReady, conn, users>>

\* The time to live of a key (300 or 600 seconds) runs out.
Expire(key) ==
  /\ key \in DOMAIN cache
  /\ cache' = Del(cache, key)
  /\ UNCHANGED <<store, jobs, sent, req, stock0, mailOk, price, listed, client,
                 isReady, conn, users>>

(* -------- Routes/ProductsEnhanced.js: create, update, delete ---------- *)

\* The fields of req.body the model follows: price (0: not given) and
\* active ("true", "false", or "undefined": not given), and the document the
\* handler holds.
AdminBody(p, newPrice, act) ==
  [product |-> p, price |-> newPrice, active |-> act, redis |-> Null,
   doc |-> [price |-> 0, active |-> TRUE, modified |-> {}]]

\* router.post("/"): the validation of the required fields
CreateStart(r, valid, act) ==
  /\ CanStart(r)
  /\ LET new == [IdleReq EXCEPT !.kind = "create",
                                !.body = AdminBody(Undefined, Price["p2"], act)]
     IN req' = [req EXCEPT ![r] =
          IF ~valid THEN [new EXCEPT !.pc = "done",
                                     !.resp = Resp(400, "Missing required fields")]
          ELSE [new EXCEPT !.pc = "create"]]
  /\ UNCHANGED <<store, jobs, sent, stock0, mailOk, price, aside>>

\* const product = await Product.create({...}); const redis = getRedis();
\* if (redis) redis.del("product_categories") is sent
CreateProduct(r, p) ==
  /\ At(r, "create", "create")
  /\ p \notin listed
  /\ CanGetRedis
  /\ listed' = listed \cup {p}
  /\ active' = [active EXCEPT ![p] =
                  IF req[r].body.active = Undefined THEN TRUE
                  ELSE req[r].body.active = "true"]
  /\ LET g == GetRedis IN
       /\ client' = g.client
       /\ conn' = g.conn
       /\ req' = [req EXCEPT ![r] =
             IF g.ret # Null
               THEN [@ EXCEPT !.pc = "invalidate", !.i = 1, !.body.product = p,
                              !.body.redis = g.ret, !.fx = @ \cup {"catalog"}]
             ELSE [@ EXCEPT !.pc = "done", !.body.product = p,
                            !.fx = @ \cup {"catalog"},
                            !.resp = Resp(201, "Product created successfully")]]
  /\ UNCHANGED <<stock, sizes, orders, cart, jobs, sent, stock0, mailOk, price,
                 isReady, cache, users>>

\* await redis.del("product_categories");
\* await redis.del(`product:${product._id}`); await redis.flushall();
\* res.status(201), or the catch: res.status(500)
CreateInvalidate(r) ==
  /\ At(r, "create", "invalidate")
  /\ LET b == req[r].body
         i == req[r].i
     IN IF ~Writeable(b.redis)
          THEN Reply(r, 500, "Server error") /\ cache' = cache
        ELSE /\ cache' = IF i = 1 THEN Del(cache, CategoriesKey)
                         ELSE IF i = 2 THEN Del(cache, ProductKey(b.product))
                         ELSE Flushed
             /\ IF i < 3 THEN req' = [req EXCEPT ![r].i = i + 1]
                ELSE Reply(r, 201, "Product created successfully")
  /\ UNCHANGED <<store, jobs, sent, stock0, mailOk, price, listed, client, isReady, conn, users>>

\* router.put("/:id")
UpdateStart(r, p, newPrice, act) ==
  /\ CanStart(r)
  /\ req' = [req EXCEPT ![r] = [IdleReq EXCEPT !.kind = "update", !.pc = "find",
                                               !.body = AdminBody(p, newPrice, act)]]
  /\ UNCHANGED <<store, jobs, sent, stock0, mailOk, price, aside>>

\* const product = await Product.findById(id); 404;
\* product.price = price ? Number(price) : product.price;
\* product.active = active !== undefined ? ... : product.active
UpdateFind(r) ==
  /\ At(r, "update", "find")
  /\ LET b == req[r].body
         p == b.product
     IN IF p \notin listed THEN Reply(r, 404, "Product not found")
        ELSE req' = [req EXCEPT ![r].pc = "save", ![r].body.doc =
               [price |-> IF b.price # 0 THEN b.price ELSE price[p].price,
                active |-> IF b.active # Undefined THEN b.active = "true"
                           ELSE active[p],
                modified |->
                  {f \in {"price"} : b.price # 0 /\ b.price # price[p].price}
                  \cup {f \in {"active"} :
                          b.active # Undefined /\ (b.active = "true") # active[p]}]]
  /\ UNCHANGED <<store, jobs, sent, stock0, mailOk, price, aside>>

\* await product.save(); await redis.del("product_categories"): no redis is
\* declared in this handler, the statement throws a ReferenceError and the
\* catch answers res.status(500)
UpdateSave(r) ==
  /\ At(r, "update", "save")
  /\ LET b == req[r].body
         p == b.product
     IN /\ price' = [price EXCEPT ![p].price =
                         IF "price" \in b.doc.modified THEN b.doc.price ELSE @]
        /\ active' = [active EXCEPT ![p] =
                         IF "active" \in b.doc.modified THEN b.doc.active ELSE @]
        /\ req' = [req EXCEPT ![r].pc = "done",
                              ![r].fx = IF b.doc.modified # {} THEN @ \cup {"catalog"}
                                        ELSE @,
                              ![r].resp = Resp(500, "Server error")]
  /\ UNCHANGED <<stock, sizes, orders, cart, jobs, sent, stock0, mailOk, aside>>

\* router.delete("/:id")
DeleteStart(r, p) ==
  /\ CanStart(r)
  /\ req' = [req EXCEPT ![r] =
               [IdleReq EXCEPT !.kind = "delete", !.pc = "find",
                               !.body = AdminBody(p, 0, "false")]]
  /\ UNCHANGED <<store, jobs, sent, stock0, mailOk, price, aside>>

\* const product = await Product.findById(req.params.id); 404;
\* product.active = false
DeleteFind(r) ==
  /\ At(r, "delete", "find")
  /\ LET p == req[r].body.product IN
       IF p \notin listed THEN Reply(r, 404, "Product not found")
       ELSE req' = [req EXCEPT ![r].pc = "save", ![r].body.doc =
              [price |-> price[p].price, active |-> FALSE,
               modified |-> {f \in {"active"} : active[p]}]]
  /\ UNCHANGED <<store, jobs, sent, stock0, mailOk, price, aside>>

\* await product.save(); res.status(200)
DeleteSave(r) ==
  /\ At(r, "delete", "save")
  /\ active' = [active EXCEPT ![req[r].body.product] =
                  IF "active" \in req[r].body.doc.modified THEN FALSE ELSE @]
  /\ req' = [req EXCEPT ![r].pc = "done",
                        ![r].fx = IF req[r].body.doc.modified # {} THEN @ \cup {"catalog"}
                                  ELSE @,
                        ![r].resp = Resp(200, "Product deleted successfully")]
  /\ UNCHANGED <<stock, sizes, orders, cart, jobs, sent, stock0, mailOk, price, aside>>

(* ------------- the User model (part_002) and POST /login -------------- *)

\* A user who has never failed a login and has no address.
NewAccount == [loginAttempts |-> 0, lockUntil |-> 0, addresses |-> <<>>]
NoLogin == account = NewAccount /\ clock = 1

\* userSchema.virtual('isLocked') of the document u, read at time t
IsLocked(u, t) == u.lockUntil # 0 /\ u.lockUntil > t

\* Time passes.
Tick ==
  /\ clock < MaxClock
  /\ clock' = clock + 1
  /\ UNCHANGED <<store, jobs, sent, req, stock0, mailOk, price, listed, client,
                 isReady, conn, cache, account>>

\* The locals of a login: whether the password is the right one, the user
\* document found, and the update incLoginAttempts has built.
LoginBody(right) ==
  [right |-> right, user |-> NewAccount, update |-> [op |-> "none", until |-> 0]]

\* const user = await User.findOne({ email }).select('+password');
\* if (user.isLocked) return res.status(423)
LoginFind(r, right) ==
  /\ CanStart(r)
  /\ LET new == [IdleReq EXCEPT !.kind = "login",
                                !.body = [LoginBody(right) EXCEPT !.user = account]]
     IN req' = [req EXCEPT ![r] =
          IF IsLocked(account, clock)
            THEN [new EXCEPT !.pc = "done",
                             !.resp = Resp(423, "Account temporarily locked")]
          ELSE [new EXCEPT !.pc = "match"]]
  /\ UNCHANGED <<store, jobs, sent, stock0, mailOk, price, aside>>

\* userSchema.methods.incLoginAttempts, up to the call of updateOne: the
\* update is built from the document the handler holds.
IncLoginAttempts(u, t) ==
  IF u.lockUntil # 0 /\ u.lockUntil < t
    THEN [op |-> "restart", until |-> 0]
  ELSE IF u.loginAttempts + 1 >= LockAfter /\ ~IsLocked(u, t)
    THEN [op |-> "inc", until |-> t + LockSpan]
  ELSE [op |-> "inc", until |-> 0]

\* const isMatch = await user.matchPassword(password); then
\* incLoginAttempts() is called, or resetLoginAttempts(), or user.save()
LoginMatch(r) ==
  /\ At(r, "login", "match")
  /\ LET b == req[r].body IN
       req' = [req EXCEPT ![r] =
         IF ~b.right
           THEN [@ EXCEPT !.pc = "inc",
                          !.body.update = IncLoginAttempts(b.user, clock)]
         ELSE IF b.user.loginAttempts > 0 THEN [@ EXCEPT !.pc = "reset"]
         ELSE [@ EXCEPT !.pc = "save"]]
  /\ UNCHANGED <<store, jobs, sent, stock0, mailOk, price, aside>>

\* this.updateOne({ $set: { loginAttempts: 1 }, $unset: { lockUntil: 1 } })
\* or this.updateOne({ $inc: { loginAttempts: 1 }, $set: { lockUntil } });
\* return res.status(401)
LoginInc(r) ==
  /\ At(r, "login", "inc")
  /\ LET up == req[r].body.update IN
       account' =
         IF up.op = "restart"
           THEN [account EXCEPT !.loginAttempts = 1, !.lockUntil = 0]
         ELSE [account EXCEPT !.loginAttempts = @ + 1,
                              !.lockUntil = IF up.until # 0 THEN up.until ELSE @]
  /\ Reply(r, 401, "Invalid credentials")
  /\ UNCHANGED <<store, jobs, sent, stock0, mailOk, price, listed, client, isReady,
                 conn, cache, clock>>

\* await user.resetLoginAttempts():
\* this.updateOne({ $unset: { loginAttempts: 1, lockUntil: 1 } })
LoginReset(r) ==
  /\ At(r, "login", "reset")
  /\ account' = [account EXCEPT !.loginAttempts = 0, !.lockUntil = 0]
  /\ req' = [req EXCEPT ![r].pc = "save"]
  /\ UNCHANGED <<store, jobs, sent, stock0, mailOk, price, listed, client, isReady,
                 conn, cache, clock>>

\* user.lastLogin = new Date(); await user.save(); res.status(200)
LoginSave(r) ==
  /\ At(r, "login", "save")
  /\ Reply(r, 200, "token")
  /\ UNCHANGED <<store, jobs, sent, stock0, mailOk, price, aside>>

(* ------------- the User model (part_002): addresses ------------------- *)

Address(id, isDefault) == [id |-> id, isDefault |-> isDefault]

\* this.addresses.filter(addr => addr.isDefault).length
DefaultCount(as) == Cardinality({ k \in DOMAIN as : as[k].isDefault })

\* userSchema.pre('save') "Ensure only one default address": with more than
\* one default, every address but the first loses its flag; with none, the
\* first address gets it.
EnsureOneDefault(as) ==
  IF as = <<>> THEN as
  ELSE IF DefaultCount(as) > 1
    THEN [k \in DOMAIN as |->
            IF k > 1 /\ as[k].isDefault THEN Address(as[k].id, FALSE) ELSE as[k]]
  ELSE IF DefaultCount(as) = 0 THEN [as EXCEPT ![1].isDefault = TRUE]
  ELSE as

\* this.addresses.id(addressId): the index of the address, or 0
IndexOf(as, id) ==
  IF \E k \in DOMAIN as : as[k].id = id
  THEN CHOOSE k \in DOMAIN as : as[k].id = id ELSE 0

\* this.addresses.pull(addressId)
Pull(as, id) == SelectSeq(as, LAMBDA a : a.id # id)

\* userSchema.methods.addAddress, up to this.save()
AddAddress(as, id, isDefault) ==
  Append(as, Address(id, IF as = <<>> THEN TRUE ELSE isDefault))

\* userSchema.methods.updateAddress, up to this.save(): Object.assign with
\* an updateData that has an isDefault (given) or has none
UpdateAddress(as, id, given, isDefault) ==
  [as EXCEPT ![IndexOf(as, id)].isDefault = IF given THEN isDefault ELSE @]

\* userSchema.methods.removeAddress, up to this.save()
RemoveAddress(as, id) ==
  LET wasDefault == as[IndexOf(as, id)].isDefault
      rest == Pull(as, id)
  IN IF wasDefault /\ rest # <<>> THEN [rest EXCEPT ![1].isDefault = TRUE]
     ELSE rest

\* userSchema.methods.setDefaultAddress, up to this.save()
SetDefaultAddress(as, id) ==
  [k \in DOMAIN as |-> Address(as[k].id, as[k].id = id)]

\* The four address routes: const user = await User.findById(req.user.id)
AddressFind(r, op, id, given, isDefault) ==
  /\ CanStart(r)
  /\ req' = [req EXCEPT ![r] =
       [IdleReq EXCEPT !.kind = "address", !.pc = "save", !.arg = op,
                       !.body = [id |-> id, given |-> given, isDefault |-> isDefault,
                                 addresses |-> account.addresses]]]
  /\ UNCHANGED <<store, jobs, sent, stock0, mailOk, price, aside>>

\* await user.addAddress(...) etc.: the method changes the document the
\* handler holds and saves it, or throws 'Address not found' (500).
AddressSave(r) ==
  /\ At(r, "address", "save")
  /\ LET b == req[r].body
         as == b.addresses
         op == req[r].arg
     IN IF op # "add" /\ IndexOf(as, b.id) = 0
          THEN Reply(r, 500, "Server error") /\ account' = account
        ELSE /\ account' = [account EXCEPT !.addresses = EnsureOneDefault(
                   IF op = "add" THEN AddAddress(as, b.id, b.isDefault)
                   ELSE IF op = "update"
                     THEN UpdateAddress(as, b.id, b.given, b.isDefault)
                   ELSE IF op = "remove" THEN RemoveAddress(as, b.id)
                   ELSE SetDefaultAddress(as, b.id))]
             /\ Reply(r, IF op = "add" THEN 201 ELSE 200, "addresses")
  /\ UNCHANGED <<store, jobs, sent, stock0, mailOk, price, listed, client, isReady,
                 conn, cache, clock>>

(* --------------------------- inputs and Init -------------------------- *)

GoodSignature == Hmac(Secret, SignedMessage("order_1", "pay_1"))

\* The signatures a client may send with paymentId "pay_1" and
\* razorpayOrderId "order_1": the right one, one made for another payment,
\* and one made with another key.
Signatures ==
  { GoodSignature,
    Hmac(Secret, SignedMessage("order_1", "pay_2")),
    Hmac("attacker", SignedMessage("order_1", "pay_1")) }

\* req.body.orderItems: a list, or absent, or (second router copy) empty.
Supplied(lists) ==
  { <<"list", l>> : l \in lists } \cup { <<"absent", <<>>>> }
SuppliedAlt(lists) == Supplied(lists) \cup { <<"empty", <<>>>> }

OneCart(c) == [u \in Users |-> IF u = "u1" THEN c ELSE NoCart]
FullCart == SavedCart(<<Item("p1", "A", 1)>>)

\* Every product at its list price, with no discountPrice (0 stands for a
\* discountPrice that is not set).
ListPrices == [p \in Products |-> [price |-> Price[p], discountPrice |-> 0]]

\* The products ps are in the collection; getRedis() was not called yet.
NoRedis(ps) ==
  /\ NoLogin
  /\ listed = ps
  /\ client = Null
  /\ isReady = FALSE
  /\ conn = [c \in ClientIds |-> NoConn]
  /\ cache = Flushed

InitWith(n, stocks, sizeStocks, actives, carts, outcomes) ==
  /\ mailOk = outcomes
  /\ price = ListPrices
  /\ NoRedis(Products)
  /\ stock \in stocks
  /\ stock0 = stock
  /\ sizes \in sizeStocks
  /\ active \in actives
  /\ cart \in carts
  /\ orders = <<>>
  /\ jobs = [o \in 1..n |-> NoJob]
  /\ sent = {}
  /\ req = [r \in 1..n |-> IdleReq]

AllActive == [p \in Products |-> TRUE]
UnitSizes == [p \in Products |-> [s \in SizeNames |-> 1]]

(* ---- the four checkout handlers, for n requests and given inputs ----- *)
\* U: users, S: signatures, C: <<addressOk, paymentMethod>> pairs,
\* L: orderItems inputs of Routes/Order.js, LA: of the second router copy

CheckoutNext(n, U, S, C, L, LA) ==
  \/ \E r \in 1..n, u \in U, sig \in S, in \in L :
       CaptureStart(r, u, sig, in[1], in[2])
  \/ \E r \in 1..n : CaptureValidate(r)
  \/ \E r \in 1..n : CaptureCreate(r)
  \/ \E r \in 1..n : CaptureReduce(r)
  \/ \E r \in 1..n : CaptureClearCart(r)
  \/ \E r \in 1..n : CaptureRender(r)
  \/ \E r \in 1..n : CaptureSendMail(r)
  \/ \E r \in 1..n, u \in U, c \in C, in \in L :
       CodStart(r, u, c[1], c[2], in[1], in[2])
  \/ \E r \in 1..n : CodValidate(r)
  \/ \E r \in 1..n : CodCreate(r)
  \/ \E r \in 1..n : CodReduce(r)
  \/ \E r \in 1..n : CodClearCart(r)
  \/ \E r \in 1..n : CodRender(r)
  \/ \E r \in 1..n : CodSendMail(r)
  \/ \E r \in 1..n, u \in U, sig \in S, in \in L :
       AltCaptureStart(r, u, sig, in[1], in[2])
  \/ \E r \in 1..n : AltCaptureValidate(r)
  \/ \E r \in 1..n : AltCaptureCreate(r)
  \/ \E r \in 1..n : AltCaptureReduce(r)
  \/ \E r \in 1..n : AltCaptureClearCart(r)
  \/ \E r \in 1..n, u \in U, c \in C, in \in LA :
       AltCodStart(r, u, c[1], c[2], in[1], in[2])
  \/ \E r \in 1..n : AltCodLoadCart(r)
  \/ \E r \in 1..n : AltCodValidate(r)
  \/ \E r \in 1..n : AltCodCreate(r)
  \/ \E r \in 1..n : AltCodClearCart(r)

CodOk == { <<TRUE, "cod">> }
OneItem == <<Item("p1", "A", 1)>>

(* ---- SpecCheckout: checkouts with right and tampered signatures, ----- *)
(* ---- with and without a cart, with and without orderItems ------------- *)

CheckoutInit ==
  InitWith(MaxReq, [Products -> {1}], {UnitSizes}, {AllActive},
           {OneCart(FullCart), OneCart(NoCart)}, {TRUE})
CheckoutSpecNext ==
  CheckoutNext(MaxReq, {"u1"}, Signatures, CodOk,
               {<<"list", OneItem>>},
               {<<"list", OneItem>>, <<"absent", <<>>>>, <<"empty", <<>>>>})
SpecCheckout == CheckoutInit /\ [][CheckoutSpecNext]_vars

(* ---- SpecValidate: two-line checkouts whose first or second line ------ *)
(* ---- names a missing, an inactive or an under-stocked product --------- *)

ValidateLists ==
  { <<"list", <<Item("p1", "A", MaxQty), Item("p2", "A", 1)>> >>,
    <<"list", <<Item("p2", "A", 1), Item("p1", "A", MaxQty)>> >>,
    <<"list", <<Item("p1", "A", 1), Item(NoProduct, "A", 1)>> >> }

ValidateInit ==
  InitWith(MaxReq,
           { [p \in Products |-> IF p = "p1" THEN s ELSE 1] : s \in {MaxQty - 1, MaxQty} },
           {UnitSizes},
           { [p \in Products |-> IF p = "p1" THEN TRUE ELSE a] : a \in BOOLEAN },
           {OneCart(SavedCart(<<Item("p1", "A", 1), Item("p2", "A", 1)>>))}, {TRUE})
ValidateNext ==
  CheckoutNext(MaxReq, {"u1"}, {GoodSignature}, CodOk,
               ValidateLists, ValidateLists \cup {<<"absent", <<>>>>})
SpecValidate == ValidateInit /\ [][ValidateNext]_vars

(* ---- SpecStock: one-line checkouts of product p1, by size ------------- *)

StockLists ==
  { <<"list", <<Item("p1", s, q)>> >> : s \in ReqSizes, q \in 1..MaxQty }

StockInit ==
  InitWith(MaxReq,
           { [p \in Products |-> IF p = "p1" THEN s ELSE 1] : s \in 0..MaxStock },
           { [p \in Products |-> [s \in SizeNames |-> IF s = "A" THEN 0 ELSE MaxStock]] },
           {AllActive}, {OneCart(FullCart)}, {TRUE})
StockNext ==
  CheckoutNext(MaxReq, {"u1"}, {GoodSignature}, CodOk,
               StockLists, StockLists \cup {<<"absent", <<>>>>})
SpecStock == StockInit /\ [][StockNext]_vars

(* ---- SpecMail: checkouts and the invoice worker ----------------------- *)

MailInit ==
  InitWith(MaxReq, [Products -> {MaxStock}], {UnitSizes}, {AllActive},
           {OneCart(FullCart)}, BOOLEAN)
MailNext ==
  \/ CheckoutNext(MaxReq, {"u1"}, {GoodSignature}, CodOk,
                  {<<"list", OneItem>>}, {<<"list", OneItem>>, <<"absent", <<>>>>})
  \/ \E o \in 1..MaxReq : ProcessInvoice(o)
SpecMail == MailInit /\ [][MailNext]_vars

(* ---- Spec: the life of an order in Routes/Order.js --------------------- *)

Init ==
  InitWith(MaxLifeReq,
           { [p \in Products |-> IF p = "p1" THEN s ELSE 1] : s \in 1..MaxStock },
           {UnitSizes}, {AllActive}, {OneCart(FullCart)}, {TRUE})
Next ==
  \/ \E r \in 1..MaxLifeReq :
       CaptureStart(r, "u1", GoodSignature, "list", OneItem)
  \/ \E r \in 1..MaxLifeReq : CaptureValidate(r)
  \/ \E r \in 1..MaxLifeReq : CaptureCreate(r)
  \/ \E r \in 1..MaxLifeReq : CaptureReduce(r)
  \/ \E r \in 1..MaxLifeReq : CaptureClearCart(r)
  \/ \E r \in 1..MaxLifeReq : CaptureRender(r)
  \/ \E r \in 1..MaxLifeReq : CaptureSendMail(r)
  \/ \E r \in 1..MaxLifeReq :
       CodStart(r, "u1", TRUE, "cod", "list", OneItem)
  \/ \E r \in 1..MaxLifeReq : CodValidate(r)
  \/ \E r \in 1..MaxLifeReq : CodCreate(r)
  \/ \E r \in 1..MaxLifeReq : CodReduce(r)
  \/ \E r \in 1..MaxLifeReq : CodClearCart(r)
  \/ \E r \in 1..MaxLifeReq : CodRender(r)
  \/ \E r \in 1..MaxLifeReq : CodSendMail(r)
  \/ \E r \in 1..MaxLifeReq, u \in Users : PayLoad(r, u, 1)
  \/ \E r \in 1..MaxLifeReq : PayReduce(r)
  \/ \E r \in 1..MaxLifeReq : PaySave(r)
  \/ \E r \in 1..MaxLifeReq, u \in Users : CancelLoad(r, u, 1)
  \/ \E r \in 1..MaxLifeReq : CancelRestore(r)
  \/ \E r \in 1..MaxLifeReq : CancelSave(r)
  \/ \E r \in 1..MaxLifeReq, st \in Statuses : StatusLoad(r, 1, st)
  \/ \E r \in 1..MaxLifeReq : StatusSave(r)
Spec == Init /\ [][Next]_vars

(* ---- SpecLife: pay, cancel and status requests on a stored order ------ *)

\* An order of u1 for one unit of p1 that a checkout stored earlier.
StoredOrder(paid) ==
  [user |-> "u1", orderItems |-> OneItem,
   paymentMethod |-> IF paid THEN "razorpay" ELSE "cod",
   isPaid |-> paid, status |-> IF paid THEN "processing" ELSE "pending",
   isDelivered |-> FALSE, deliveredAt |-> 0, prices |-> CalculatedPrices(OneItem),
   verified |-> paid,
   by |-> 0, decs |-> <<1>>, incs |-> <<0>>]

LifeInit ==
  /\ mailOk = {TRUE}
  /\ price = ListPrices
  /\ NoRedis(Products)
  /\ stock = [p \in Products |-> 1]
  /\ stock0 = stock
  /\ sizes = UnitSizes
  /\ active = AllActive
  /\ cart = OneCart(NoCart)
  /\ \E paid \in BOOLEAN : orders = <<StoredOrder(paid)>>
  /\ jobs = [o \in 1..MaxReq |-> NoJob]
  /\ sent = {}
  /\ req = [r \in 1..MaxReq |-> IdleReq]
LifeNext ==
  \/ \E r \in 1..MaxReq, u \in Users : PayLoad(r, u, 1)
  \/ \E r \in 1..MaxReq : PayReduce(r)
  \/ \E r \in 1..MaxReq : PaySave(r)
  \/ \E r \in 1..MaxReq, u \in Users : CancelLoad(r, u, 1)
  \/ \E r \in 1..MaxReq : CancelRestore(r)
  \/ \E r \in 1..MaxReq : CancelSave(r)
  \/ \E r \in 1..MaxReq, st \in Statuses : StatusLoad(r, 1, st)
  \/ \E r \in 1..MaxReq : StatusSave(r)
SpecLife == LifeInit /\ [][LifeNext]_vars

(* ---- SpecSeq: a client that waits for each answer before its next ----- *)
(* ---- request: checkouts and cancels of order 1, one at a time --------- *)

\* No handler is between its first step and its answer.
AllAnswered == \A x \in DOMAIN req : req[x].pc \in {"idle", "done"}

SeqCapture(r) ==
  AllAnswered /\ CaptureStart(r, "u1", GoodSignature, "list", OneItem)
SeqCod(r) ==
  AllAnswered /\ CodStart(r, "u1", TRUE, "cod", "list", OneItem)
SeqCancel(r, u) ==
  AllAnswered /\ CancelLoad(r, u, 1)

SeqNext ==
  \/ \E r \in 1..MaxLifeReq : SeqCapture(r)
  \/ \E r \in 1..MaxLifeReq : CaptureValidate(r)
  \/ \E r \in 1..MaxLifeReq : CaptureCreate(r)
  \/ \E r \in 1..MaxLifeReq : CaptureReduce(r)
  \/ \E r \in 1..MaxLifeReq : CaptureClearCart(r)
  \/ \E r \in 1..MaxLifeReq : CaptureRender(r)
  \/ \E r \in 1..MaxLifeReq : CaptureSendMail(r)
  \/ \E r \in 1..MaxLifeReq : SeqCod(r)
  \/ \E r \in 1..MaxLifeReq : CodValidate(r)
  \/ \E r \in 1..MaxLifeReq : CodCreate(r)
  \/ \E r \in 1..MaxLifeReq : CodReduce(r)
  \/ \E r \in 1..MaxLifeReq : CodClearCart(r)
  \/ \E r \in 1..MaxLifeReq : CodRender(r)
  \/ \E r \in 1..MaxLifeReq : CodSendMail(r)
  \/ \E r \in 1..MaxLifeReq, u \in Users : SeqCancel(r, u)
  \/ \E r \in 1..MaxLifeReq : CancelRestore(r)
  \/ \E r \in 1..MaxLifeReq : CancelSave(r)
SpecSeq == Init /\ [][SeqNext]_vars

(* ---- SpecFault: checkouts of Routes/Order.js when the store may fail -- *)

\* An awaited store call (findById, Order.create, findByIdAndUpdate,
\* findOneAndUpdate) rejects without having been applied; the handler's
\* catch answers 500.
StoreError(r, message) ==
  /\ req[r].pc \in {"validate", "create", "reduce", "clearCart"}
  /\ Reply(r, 500, message)
  /\ UNCHANGED <<store, jobs, sent, stock0, mailOk, price, aside>>

CaptureStoreError(r) ==
  req[r].kind = "capture" /\ StoreError(r, "Payment captured but order failed")

CodStoreError(r) ==
  req[r].kind = "cod" /\ StoreError(r, "COD order creation failed")

TwoItems == <<Item("p1", "A", 1), Item("p2", "A", 1)>>

FaultInit ==
  InitWith(MaxReq, [Products -> {MaxStock}], {UnitSizes}, {AllActive},
           {OneCart(FullCart)}, {TRUE})
FaultNext ==
  \/ \E r \in 1..MaxReq : CaptureStart(r, "u1", GoodSignature, "list", TwoItems)
  \/ \E r \in 1..MaxReq : CaptureValidate(r)
  \/ \E r \in 1..MaxReq : CaptureCreate(r)
  \/ \E r \in 1..MaxReq : CaptureReduce(r)
  \/ \E r \in 1..MaxReq : CaptureClearCart(r)
  \/ \E r \in 1..MaxReq : CaptureRender(r)
  \/ \E r \in 1..MaxReq : CaptureSendMail(r)
  \/ \E r \in 1..MaxReq : CaptureStoreError(r)
  \/ \E r \in 1..MaxReq : CodStart(r, "u1", TRUE, "cod", "list", TwoItems)
  \/ \E r \in 1..MaxReq : CodValidate(r)
  \/ \E r \in 1..MaxReq : CodCreate(r)
  \/ \E r \in 1..MaxReq : CodReduce(r)
  \/ \E r \in 1..MaxReq : CodClearCart(r)
  \/ \E r \in 1..MaxReq : CodRender(r)
  \/ \E r \in 1..MaxReq : CodSendMail(r)
  \/ \E r \in 1..MaxReq : CodStoreError(r)
SpecFault == FaultInit /\ [][FaultNext]_vars

(* ---- SpecTotals: checkouts whose body carries a price breakdown ------- *)

\* The handlers' entry with the price fields of req.body kept for
\* Order.create.
PricedCaptureStart(r, sig, list, pr) ==
  /\ CanStart(r)
  /\ LET new == [IdleReq EXCEPT !.kind = "capture", !.body = CaptureBody(sig),
                                !.items = list, !.prices = pr]
     IN req' = [req EXCEPT ![r] =
          IF ~SignatureValid(new.body)
            THEN [new EXCEPT !.pc = "done",
                             !.resp = Resp(400, "Invalid payment signature")]
          ELSE [new EXCEPT !.pc = "validate", !.i = 1]]
  /\ UNCHANGED <<store, jobs, sent, stock0, mailOk, price, aside>>

PricedCodStart(r, addressOk, method, list, pr) ==
  /\ CanStart(r)
  /\ LET new == [IdleReq EXCEPT !.kind = "cod", !.arg = method,
                                !.items = list, !.prices = pr]
     IN req' = [req EXCEPT ![r] =
          IF ~addressOk
            THEN [new EXCEPT !.pc = "done", !.resp = Resp(400, "validation errors")]
          ELSE IF method # "cod"
            THEN [new EXCEPT !.pc = "done",
                             !.resp = Resp(400, "Invalid payment method for this route")]
          ELSE [new EXCEPT !.pc = "validate", !.i = 1]]
  /\ UNCHANGED <<store, jobs, sent, stock0, mailOk, price, aside>>

PricedAltCodStart(r, addressOk, method, supplied, list, pr) ==
  /\ CanStart(r)
  /\ LET new == [IdleReq EXCEPT !.kind = "altCod", !.arg = method,
                                !.supplied = supplied, !.items = list,
                                !.prices = pr]
     IN req' = [req EXCEPT ![r] =
          IF ~addressOk
            THEN [new EXCEPT !.pc = "done", !.resp = Resp(400, "validation errors")]
          ELSE IF supplied # "list"
            THEN [new EXCEPT !.pc = "loadCart"]
          ELSE [new EXCEPT !.pc = "validate", !.i = 1]]
  /\ UNCHANGED <<store, jobs, sent, stock0, mailOk, price, aside>>

\* Price fields a client may send for the list it orders: none, the ones
\* the server would compute, a total only, and a breakdown of its own.
ClientPrices(list) ==
  { NoPrices,
    CalculatedPrices(list),
    [NoPrices EXCEPT !.totalPrice = Hundredths(1)],
    [itemsPrice |-> Hundredths(1), taxPrice |-> 0, shippingPrice |-> 0,
     totalPrice |-> Hundredths(1)] }

TotalsInit ==
  InitWith(MaxReq, [Products -> {MaxStock}], {UnitSizes}, {AllActive},
           {OneCart(FullCart)}, {TRUE})
TotalsNext ==
  \/ \E r \in 1..MaxReq, pr \in ClientPrices(OneItem) :
       PricedCaptureStart(r, GoodSignature, OneItem, pr)
  \/ \E r \in 1..MaxReq : CaptureValidate(r)
  \/ \E r \in 1..MaxReq : CaptureCreate(r)
  \/ \E r \in 1..MaxReq : CaptureReduce(r)
  \/ \E r \in 1..MaxReq : CaptureClearCart(r)
  \/ \E r \in 1..MaxReq : CaptureRender(r)
  \/ \E r \in 1..MaxReq : CaptureSendMail(r)
  \/ \E r \in 1..MaxReq, pr \in ClientPrices(OneItem) :
       PricedCodStart(r, TRUE, "cod", OneItem, pr)
  \/ \E r \in 1..MaxReq : CodValidate(r)
  \/ \E r \in 1..MaxReq : CodCreate(r)
  \/ \E r \in 1..MaxReq : CodReduce(r)
  \/ \E r \in 1..MaxReq : CodClearCart(r)
  \/ \E r \in 1..MaxReq : CodRender(r)
  \/ \E r \in 1..MaxReq : CodSendMail(r)
  \/ \E r \in 1..MaxReq, pr \in ClientPrices(OneItem),
        in \in {<<"list", OneItem>>, <<"absent", <<>>>>} :
       PricedAltCodStart(r, TRUE, "cod", in[1], in[2], pr)
  \/ \E r \in 1..MaxReq : AltCodLoadCart(r)
  \/ \E r \in 1..MaxReq : AltCodValidate(r)
  \/ \E r \in 1..MaxReq : AltCodCreate(r)
  \/ \E r \in 1..MaxReq : AltCodClearCart(r)
SpecTotals == TotalsInit /\ [][TotalsNext]_vars

(* ---- SpecCart: concurrent requests on one user's cart ----------------- *)

\* The prices an admin may give p1: its list price or a higher one, with no
\* discountPrice or one.
NewPrices == { <<pr, dp>> : pr \in {Price["p1"], Price["p1"] + 5}, dp \in {0, 5} }

\* The cart of u1: none yet, an empty one, one with a line for size A of p1.
CartInit(carts) ==
  InitWith(MaxReq, [Products -> {MaxStock}], {UnitSizes}, {AllActive},
           { OneCart(c) : c \in carts }, {TRUE})

CartNext ==
  \/ \E r \in 1..MaxReq, s \in SizeNames, q \in 1..MaxQty :
       AddStart(r, "u1", "p1", s, q)
  \/ \E r \in 1..MaxReq : AddFindCart(r)
  \/ \E r \in 1..MaxReq : AddSave(r)
  \/ \E r \in 1..MaxReq : GetCartFind(r, "u1")
  \/ \E r \in 1..MaxReq : GetCartSave(r)
SpecCart ==
  CartInit({NoCart, SavedCart(<<>>), FullCart}) /\ [][CartNext]_vars

(* ---- SpecCartSeq: cart requests and price updates, one at a time ------ *)

SeqAdd(r, s, q) == AllAnswered /\ AddStart(r, "u1", "p1", s, q)
SeqOldAdd(r, s, q) == AllAnswered /\ OldAddStart(r, "u1", "p1", s, q, Undefined)
SeqGetCart(r) == AllAnswered /\ GetCartFind(r, "u1")
SeqUpdatePrice(pr, dp) == AllAnswered /\ UpdateProductPrice("p1", pr, dp)

\* A cart in which two saves that raced left two lines for one key.
TwoLineCart == SavedCart(<<Item("p1", "A", 1), Item("p1", "A", 1)>>)

CartSeqNext ==
  \/ \E r \in 1..MaxReq, s \in SizeNames, q \in 1..MaxQty : SeqAdd(r, s, q)
  \/ \E r \in 1..MaxReq : AddFindCart(r)
  \/ \E r \in 1..MaxReq : AddSave(r)
  \/ \E r \in 1..MaxReq, s \in SizeNames, q \in 1..MaxQty : SeqOldAdd(r, s, q)
  \/ \E r \in 1..MaxReq : OldAddFindProduct(r)
  \/ \E r \in 1..MaxReq : OldAddFindCart(r)
  \/ \E r \in 1..MaxReq : OldAddSave(r)
  \/ \E r \in 1..MaxReq : SeqGetCart(r)
  \/ \E r \in 1..MaxReq : GetCartSave(r)
  \/ \E in \in NewPrices : SeqUpdatePrice(in[1], in[2])
SpecCartSeq ==
  CartInit({NoCart, FullCart, TwoLineCart}) /\ [][CartSeqNext]_vars

(* ---- SpecOneCart: first accesses, clears and checkouts of one user, - *)
(* ---- interleaved ------------------------------------------------------ *)

OneCartNext ==
  \/ \E r \in 1..MaxReq : AddStart(r, "u1", "p1", "A", 1)
  \/ \E r \in 1..MaxReq : AddFindCart(r)
  \/ \E r \in 1..MaxReq : AddSave(r)
  \/ \E r \in 1..MaxReq : GetCartFind(r, "u1")
  \/ \E r \in 1..MaxReq : GetCartSave(r)
  \/ \E r \in 1..MaxReq : ClearFind(r, "u1")
  \/ \E r \in 1..MaxReq : ClearSave(r)
  \/ \E r \in 1..MaxReq : CodStart(r, "u1", TRUE, "cod", "list", OneItem)
  \/ \E r \in 1..MaxReq : CodValidate(r)
  \/ \E r \in 1..MaxReq : CodCreate(r)
  \/ \E r \in 1..MaxReq : CodReduce(r)
  \/ \E r \in 1..MaxReq : CodClearCart(r)
  \/ \E r \in 1..MaxReq : CodRender(r)
  \/ \E r \in 1..MaxReq : CodSendMail(r)
SpecOneCart ==
  CartInit({NoCart, FullCart}) /\ [][OneCartNext]_vars

(* ---- SpecRedis: catalog reads while the Redis connection comes, ------ *)
(* ---- goes and is made again -------------------------------------------- *)

\* The store of the catalog specifications: no order, no cart, products ps.
CatalogInit(n, ps) ==
  /\ mailOk = {TRUE}
  /\ price = ListPrices
  /\ stock = [p \in Products |-> 1]
  /\ stock0 = stock
  /\ sizes = UnitSizes
  /\ active = AllActive
  /\ cart = OneCart(NoCart)
  /\ orders = <<>>
  /\ jobs = [o \in 1..n |-> NoJob]
  /\ sent = {}
  /\ req = [r \in 1..n |-> IdleReq]
  /\ listed = ps

RedisInit ==
  /\ CatalogInit(MaxReq, {"p1"})
  /\ NoLogin
  /\ client = Null
  /\ isReady = FALSE
  /\ conn = [c \in ClientIds |-> NoConn]
  /\ cache = Flushed

ReadNext(n) ==
  \/ \E r \in 1..n : ReadStart(r, "categories", "")
  \/ \E r \in 1..n : ReadStart(r, "list", "")
  \/ \E r \in 1..n, p \in {"p1", "p2"} : ReadStart(r, "product", p)
  \/ \E r \in 1..n : ReadGet(r)
  \/ \E r \in 1..n : CategoriesFind(r)
  \/ \E r \in 1..n : ListFind(r)
  \/ \E r \in 1..n : ListCount(r)
  \/ \E r \in 1..n : ProductFind(r)
  \/ \E r \in 1..n : ReadSetex(r)

RedisNext ==
  \/ ReadNext(MaxReq)
  \/ \E c \in ClientIds : OnReady(c)
  \/ \E c \in ClientIds : OnError(c)
  \/ \E c \in ClientIds : OnClose(c)
  \/ \E c \in ClientIds : OnEnd(c)
  \/ \E c \in ClientIds : ConnectCatch(c)
  \/ \E k \in Keys : Expire(k)
SpecRedis == RedisInit /\ [][RedisNext]_vars

(* ---- SpecCatalogSeq: catalog reads, admin changes and stock changes, - *)
(* ---- one request at a time, with Redis connected ----------------------- *)

\* getRedis() was called and its client is connected.
RedisReady ==
  /\ client = 1
  /\ isReady = TRUE
  /\ conn = [c \in ClientIds |->
              IF c = 1 THEN [status |-> "ready", connect |-> "resolved", last |-> "ready"]
              ELSE NoConn]
  /\ cache = Flushed

CatalogSeqInit == CatalogInit(MaxCatReq, {"p1"}) /\ RedisReady /\ NoLogin

SeqRead(r, kind, p) == AllAnswered /\ ReadStart(r, kind, p)
SeqCreate(r) == AllAnswered /\ CreateStart(r, TRUE, Undefined)
SeqUpdate(r, newPrice, act) == AllAnswered /\ UpdateStart(r, "p1", newPrice, act)
SeqDelete(r) == AllAnswered /\ DeleteStart(r, "p1")
SeqPay(r) == AllAnswered /\ PayLoad(r, "u1", 1)

CatalogSeqNext ==
  \/ \E r \in 1..MaxCatReq, kind \in {"categories", "list", "product"} :
       SeqRead(r, kind, "p1")
  \/ \E r \in 1..MaxCatReq : ReadGet(r)
  \/ \E r \in 1..MaxCatReq : CategoriesFind(r)
  \/ \E r \in 1..MaxCatReq : ListFind(r)
  \/ \E r \in 1..MaxCatReq : ListCount(r)
  \/ \E r \in 1..MaxCatReq : ProductFind(r)
  \/ \E r \in 1..MaxCatReq : ReadSetex(r)
  \/ \E r \in 1..MaxCatReq : SeqCreate(r)
  \/ \E r \in 1..MaxCatReq, p \in Products : CreateProduct(r, p)
  \/ \E r \in 1..MaxCatReq : CreateInvalidate(r)
  \/ \E r \in 1..MaxCatReq, in \in {<<15, Undefined>>, <<0, "false">>} :
       SeqUpdate(r, in[1], in[2])
  \/ \E r \in 1..MaxCatReq : UpdateFind(r)
  \/ \E r \in 1..MaxCatReq : UpdateSave(r)
  \/ \E r \in 1..MaxCatReq : SeqDelete(r)
  \/ \E r \in 1..MaxCatReq : DeleteFind(r)
  \/ \E r \in 1..MaxCatReq : DeleteSave(r)
  \/ \E r \in 1..MaxCatReq : SeqCod(r)
  \/ \E r \in 1..MaxCatReq : CodValidate(r)
  \/ \E r \in 1..MaxCatReq : CodCreate(r)
  \/ \E r \in 1..MaxCatReq : CodReduce(r)
  \/ \E r \in 1..MaxCatReq : CodClearCart(r)
  \/ \E r \in 1..MaxCatReq : CodRender(r)
  \/ \E r \in 1..MaxCatReq : CodSendMail(r)
  \/ \E r \in 1..MaxCatReq : SeqPay(r)
  \/ \E r \in 1..MaxCatReq : PayReduce(r)
  \/ \E r \in 1..MaxCatReq : PaySave(r)
  \/ \E r \in 1..MaxCatReq, u \in Users : SeqCancel(r, u)
  \/ \E r \in 1..MaxCatReq : CancelRestore(r)
  \/ \E r \in 1..MaxCatReq : CancelSave(r)
SpecCatalogSeq == CatalogSeqInit /\ [][CatalogSeqNext]_vars

(* ---- SpecCatalog: catalog reads and product creations, interleaved, - *)
(* ---- with Redis connected ---------------------------------------------- *)

CatalogNext ==
  \/ ReadNext(MaxCatReq)
  \/ \E r \in 1..MaxCatReq, valid \in BOOLEAN, act \in {Undefined, "false"} :
       CreateStart(r, valid, act)
  \/ \E r \in 1..MaxCatReq, p \in Products : CreateProduct(r, p)
  \/ \E r \in 1..MaxCatReq : CreateInvalidate(r)
SpecCatalog == CatalogSeqInit /\ [][CatalogNext]_vars

(* ---- SpecLogin: logins to one account, interleaved, while time ------ *)
(* ---- passes ------------------------------------------------------------ *)

\* The account after k failed logins, one after another.
FailedBefore(k) == [NewAccount EXCEPT !.loginAttempts = k]

LoginInit ==
  /\ CatalogInit(MaxReq, Products)
  /\ client = Null
  /\ isReady = FALSE
  /\ conn = [c \in ClientIds |-> NoConn]
  /\ cache = Flushed
  /\ clock = 1
  /\ \E k \in 0..(LockAfter - 1) : account = FailedBefore(k)

LoginNext ==
  \/ \E r \in 1..MaxReq, right \in BOOLEAN : LoginFind(r, right)
  \/ \E r \in 1..MaxReq : LoginMatch(r)
  \/ \E r \in 1..MaxReq : LoginInc(r)
  \/ \E r \in 1..MaxReq : LoginReset(r)
  \/ \E r \in 1..MaxReq : LoginSave(r)
  \/ Tick
SpecLogin ==
  /\ LoginInit
  /\ [][LoginNext]_vars

(* ---- SpecAddress: the address routes of one user, one at a time ------ *)

\* The address lists after no, one and two addAddress calls without
\* isDefault.
AddressLists ==
  { <<>>, <<Address(1, TRUE)>>, <<Address(1, TRUE), Address(2, FALSE)>> }

AddressInit ==
  /\ CatalogInit(MaxCatReq, Products)
  /\ client = Null
  /\ isReady = FALSE
  /\ conn = [c \in ClientIds |-> NoConn]
  /\ cache = Flushed
  /\ clock = 1
  /\ \E as \in AddressLists : account = [NewAccount EXCEPT !.addresses = as]

\* The ids of the addresses there may be: two at start, one per request.
AddressIds == 1..(2 + MaxCatReq)

SeqAddAddress(r, isDefault) ==
  AllAnswered /\ AddressFind(r, "add", 2 + r, TRUE, isDefault)
SeqUpdateAddress(r, id, given, isDefault) ==
  AllAnswered /\ AddressFind(r, "update", id, given, isDefault)
SeqRemoveAddress(r, id) ==
  AllAnswered /\ AddressFind(r, "remove", id, FALSE, FALSE)
SeqSetDefaultAddress(r, id) ==
  AllAnswered /\ AddressFind(r, "default", id, FALSE, FALSE)

AddressNext ==
  \/ \E r \in 1..MaxCatReq, isDefault \in BOOLEAN : SeqAddAddress(r, isDefault)
  \/ \E r \in 1..MaxCatReq, id \in AddressIds, given \in BOOLEAN, isDefault \in BOOLEAN :
       SeqUpdateAddress(r, id, given, isDefault)
  \/ \E r \in 1..MaxCatReq, id \in AddressIds : SeqRemoveAddress(r, id)
  \/ \E r \in 1..MaxCatReq, id \in AddressIds : SeqSetDefaultAddress(r, id)
  \/ \E r \in 1..MaxCatReq : AddressSave(r)
SpecAddress == AddressInit /\ [][AddressNext]_vars

(* ============================ C3 ====================================== *)

IsCapture(q) == q.kind \in {"capture", "altCapture"}
Tampered(q) ==
  q.body.signature # Hmac(Secret, SignedMessage(q.body.razorpayOrderId, q.body.paymentId))

\* C3 - Signature rejection: a POST /capture whose signature differs from
\* HMAC-SHA256(secret, razorpayOrderId + "|" + paymentId) is answered 400
\* "Invalid payment signature" in the very step in which it arrives, and that
\* step changes no order, no stock, no cart, no queued job and no sent mail;
\* the request never performs any effect afterwards.
SignatureRejection ==
  [][ \A r \in DOMAIN req :
        (IsCapture(req'[r]) /\ Tampered(req'[r])) =>
          /\ req'[r].pc = "done"
          /\ req'[r].resp = Resp(400, "Invalid payment signature")
          /\ req'[r].fx = {}
          /\ \A o \in 1..Len(orders') : orders'[o].by # r
          /\ req[r].kind = "none" =>
               (orders' = orders /\ stock' = stock /\ sizes' = sizes
                /\ cart' = cart /\ jobs' = jobs /\ sent' = sent) ]_vars

\* A tampered capture was rejected while the cart still holds its line.
SignatureRejectionWitness ==
  \E r \in DOMAIN req :
    /\ req[r].kind = "capture" /\ Tampered(req[r])
    /\ req[r].resp = Resp(400, "Invalid payment signature")
    /\ cart["u1"].items # <<>>

(* ============================ C4 ====================================== *)

IsCheckout(q) == q.kind \in {"capture", "cod", "altCapture", "altCod"}

\* The line fails validation against the store as the handler reads it.
LineFails(item) ==
  \/ item.product \notin Products
  \/ ~active[item.product]
  \/ stock[item.product] < item.quantity

OrdersOf(r, os) == { o \in 1..Len(os) : os[o].by = r }

RECURSIVE QtyOf(_, _)
QtyOf(p, items) ==
  IF items = <<>> THEN 0
  ELSE (IF items[1].product = p THEN items[1].quantity ELSE 0) + QtyOf(p, Tail(items))

RECURSIVE Ordered(_, _)
Ordered(p, os) ==
  IF os = <<>> THEN 0 ELSE QtyOf(p, os[1].orderItems) + Ordered(p, Tail(os))

\* C4 - All-or-nothing validation: when the line a checkout is validating
\* (first or later) names a missing, inactive or under-stocked product, that
\* step answers 400 and changes no order, stock, cart, job or mail; a checkout
\* answered 400 has created no order and performed no effect, and every unit
\* taken from a product's stock belongs to a line of a persisted order.
AllOrNothingValidation ==
  [][ /\ \A r \in DOMAIN req :
           /\ ( /\ IsCheckout(req[r]) /\ req[r].pc = "validate"
                /\ req'[r] # req[r]
                /\ LineFails(req[r].items[req[r].i]) )
              => /\ req'[r].pc = "done" /\ req'[r].resp.code = 400
                 /\ stock' = stock /\ orders' = orders /\ cart' = cart
                 /\ jobs' = jobs /\ sent' = sent
           /\ ( /\ IsCheckout(req'[r]) /\ req'[r].pc = "done"
                /\ req'[r].resp.code = 400 )
              => /\ OrdersOf(r, orders') = {}
                 /\ req'[r].fx = {}
      /\ \A p \in Products : stock0'[p] - stock'[p] <= Ordered(p, orders') ]_vars

\* A checkout was rejected on its SECOND line, the first having passed.
AllOrNothingValidationWitness ==
  \E r \in DOMAIN req :
    /\ IsCheckout(req[r]) /\ req[r].pc = "done" /\ req[r].resp.code = 400
    /\ Len(req[r].items) = 2
    /\ ~LineFails(req[r].items[1])
    /\ LineFails(req[r].items[2])
    /\ orders = <<>>

(* ============================ C1 ====================================== *)

UnitCheckout(q, s) ==
  /\ q.kind \in {"capture", "cod"}
  /\ q.supplied = "list"
  /\ q.items = <<Item("p1", s, 1)>>

\* C1 - No oversell: when every one of the K requests is a checkout of
\* quantity 1 of the same size of p1, K exceeds the initial stock S and all
\* have been answered, then at most S created an order, exactly S units were
\* taken from the stock, every other request was answered 400 (insufficient
\* stock) and the stock is 0.
NoOversell ==
  \A s \in SizeNames :
    ( /\ \A r \in DOMAIN req : UnitCheckout(req[r], s) /\ req[r].pc = "done"
      /\ Cardinality(DOMAIN req) > stock0["p1"] )
    => /\ Cardinality({ r \in DOMAIN req : req[r].order # 0 }) <= stock0["p1"]
       /\ Cardinality({ r \in DOMAIN req : "stock" \in req[r].fx }) = stock0["p1"]
       /\ \A r \in DOMAIN req : req[r].order = 0 => req[r].resp.code = 400
       /\ stock["p1"] = 0

(* ============================ C2 ====================================== *)

\* C2 - Stock is never negative: in every reachable state the stock counter
\* of every product is >= 0.
StockNeverNegative == \A p \in Products : stock[p] >= 0

(* ============================ C5 ====================================== *)

\* C5 - Per-size validation: no order exists with a line whose size is not
\* among the product's sizes, or whose quantity exceeds the stock of that
\* size (product.sizes[].stock is never written by the order handlers, so its
\* value is the one the checkout saw).
PerSizeValidation ==
  \A o \in Orders :
    \A k \in 1..Len(orders[o].orderItems) :
      LET item == orders[o].orderItems[k] IN
        /\ item.size \in SizeNames
        /\ sizes[item.product][item.size] >= item.quantity

(* ============================ C6 ====================================== *)

\* C6 - Stock decrement is scoped to (product, size): the decrement step of
\* a checkout for quantity q of size A of product P lowers the stock of size A
\* of P by q and leaves every other size of P and every other product as it
\* was.
SizeScopedDecrement ==
  [][ \A r \in DOMAIN req :
        ( /\ IsCheckout(req[r]) /\ req[r].pc = "reduce" /\ req'[r] # req[r]
          /\ orders[req[r].order].orderItems[req[r].i].size \in SizeNames )
        => LET item == orders[req[r].order].orderItems[req[r].i] IN
             /\ sizes'[item.product][item.size]
                  = sizes[item.product][item.size] - item.quantity
             /\ \A p \in Products, z \in SizeNames :
                  <<p, z>> # <<item.product, item.size>> => sizes'[p][z] = sizes[p][z]
             /\ \A p \in Products \ {item.product} : stock'[p] = stock[p] ]_vars

(* ============================ C7 ====================================== *)

\* C7 - No double-decrement: over the life of an order, through its creation
\* and any PUT /:id/pay calls, the quantity of each of its lines is taken
\* from the product stock at most once.
NoDoubleDecrement ==
  \A o \in Orders :
    \A k \in 1..Len(orders[o].orderItems) : orders[o].decs[k] <= 1

(* ============================ C8 ====================================== *)

Succeeds(q) == IsCheckout(q) /\ q.pc = "done" /\ q.resp.code \in {200, 201}

\* C8 - Cart clearing is unconditional: when a checkout answers success (its
\* order was created), the cart of its user has no items, totalItems = 0 and
\* totalPrice = 0, whether the order was built from the cart or from the
\* item list of the request.
CartClearedAfterOrder ==
  [][ \A r \in DOMAIN req :
        (req[r].pc # "done" /\ Succeeds(req'[r])) =>
          LET c == cart'[req'[r].user] IN
            c.items = <<>> /\ c.totalItems = 0 /\ c.totalPrice = 0 ]_vars

(* ============================ C9 ====================================== *)

Extends(os2, os1) ==
  Len(os2) >= Len(os1) /\ \A o \in 1..Len(os1) : os2[o] = os1[o]

\* C9 - Invoice dispatch failure does not fail the checkout: when a checkout
\* whose order exists finishes without its confirmation having been sent or
\* queued (template, transport or queue error), it answers success, its
\* order is still stored, no stock is given back and a cleared cart stays
\* cleared.
InvoiceFailureTolerated ==
  [][ \A r \in DOMAIN req :
        ( /\ IsCheckout(req'[r]) /\ req[r].pc # "done" /\ req'[r].pc = "done"
          /\ OrdersOf(r, orders') # {}
          /\ \A o \in OrdersOf(r, orders') :
               o \notin sent' /\ jobs'[o].state = "none" )
        => /\ req'[r].resp.code \in {200, 201}
           /\ req'[r].resp.message = "success"
           /\ req'[r].order \in OrdersOf(r, orders')
           /\ Extends(orders', orders)
           /\ stock' = stock
           /\ "cart" \in req'[r].fx => cart'[req'[r].user].items = <<>> ]_vars

\* A checkout of Routes/Order.js was answered success although its mail
\* failed, after it had taken its unit from the stock.
InvoiceFailureToleratedWitness ==
  \E r \in DOMAIN req :
    /\ req[r].kind \in {"capture", "cod"} /\ req[r].pc = "done"
    /\ req[r].order \in Orders /\ req[r].order \notin sent
    /\ req[r].resp.message = "success"
    /\ stock["p1"] < stock0["p1"]

(* ============================ C10 ===================================== *)

\* C10 - Invoice dispatch is decoupled from the request path: while the
\* confirmation mail of a checkout is being rendered or sent, the checkout
\* has already been answered (the answer does not wait for the mail, so a
\* transport that never settles cannot hold it back).
ResponseDoesNotWaitForMail ==
  \A r \in DOMAIN req :
    req[r].pc \in {"render", "sendMail"} => req[r].resp # NoResp


(* ============================ C11 ===================================== *)

IsCancel(q) == q.kind = "cancel"

\* C11 - Cancellation guard: a PUT /:id/cancel of the owner that finds the
\* order shipped or delivered is answered 400 in that step, which changes no
\* order and no stock; a cancel goes on only from another status, and the
\* save that ends a cancel which found the order pending or processing leaves
\* the order cancelled and answers 200.
CancellationGuard ==
  [][ \A r \in DOMAIN req :
        /\ ( /\ req[r].kind = "none" /\ IsCancel(req'[r])
             /\ orders[req'[r].order].user = req'[r].user )
           => IF orders[req'[r].order].status \in {"shipped", "delivered"}
              THEN /\ req'[r].pc = "done"
                   /\ req'[r].resp = Resp(400, "Cannot cancel shipped orders")
                   /\ orders' = orders /\ stock' = stock
              ELSE req'[r].pc \in {"restore", "save"}
        /\ ( /\ IsCancel(req[r]) /\ req[r].pc = "save" /\ req'[r].pc = "done"
             /\ req[r].dirty )
           => /\ orders'[req[r].order].status = "cancelled"
              /\ req'[r].resp = Resp(200, "Order cancelled successfully")
        /\ ( IsCancel(req'[r]) /\ req'[r].resp.code = 400 )
           => req'[r].fx = {} ]_vars

\* A cancel of the owner was refused on a shipped or delivered order, and
\* the order kept that status.
CancellationGuardWitness ==
  \E r \in DOMAIN req :
    /\ IsCancel(req[r]) /\ req[r].user = orders[1].user
    /\ req[r].resp = Resp(400, "Cannot cancel shipped orders")
    /\ orders[1].status \in {"shipped", "delivered"}

(* ============================ C12 ===================================== *)

OnlyThese(c, k) == \A x \in DOMAIN req : x \notin {c, k} => req[x].kind = "none"

CheckedOut(c) ==
  /\ req[c].kind \in {"capture", "cod"} /\ req[c].pc = "done"
  /\ req[c].order \in Orders

Cancelled(k, c) ==
  /\ IsCancel(req[k]) /\ req[k].pc = "done" /\ req[k].resp.code = 200
  /\ req[k].order = req[c].order

\* C12 - Cancel restores stock: when a checkout (online or cash on
\* delivery) has stored its order and been answered, the owner has then
\* cancelled that order, and no other request was made, the order is
\* cancelled and every product's stock has the value it had before the order
\* was placed.
CancelRestoresStock ==
  \A c, k \in DOMAIN req :
    (CheckedOut(c) /\ Cancelled(k, c) /\ OnlyThese(c, k))
    => /\ orders[req[c].order].status = "cancelled"
       /\ \A p \in Products : stock[p] = stock0[p]

(* ============================ C13 ===================================== *)

\* No checkout is between its first and its last step.
NoCheckoutRunning == \A x \in DOMAIN req : IsCheckout(req[x]) => req[x].pc = "done"

\* C13 - Idempotent cancel: with no checkout running, a cancel that finds the
\* order already cancelled answers 200 with the message of the first cancel
\* and changes neither the stock nor the order's status; no line of an order
\* is given back to the stock twice, however duplicate cancels interleave.
IdempotentCancel ==
  [][ NoCheckoutRunning =>
      /\ \A r \in DOMAIN req :
           ( IsCancel(req[r]) /\ req[r].pc \in {"restore", "save"}
             /\ ~req[r].dirty /\ req'[r] # req[r] )
           => /\ stock' = stock
              /\ orders'[req[r].order].status = orders[req[r].order].status
              /\ req'[r].pc = "done"
                   => req'[r].resp = Resp(200, "Order cancelled successfully")
      /\ \A o \in 1..Len(orders') :
           \A k \in 1..Len(orders'[o].orderItems) : orders'[o].incs[k] <= 1 ]_vars

(* ============================ C14 ===================================== *)

\* C14 - Terminal order states: no step moves an order whose status is
\* delivered or cancelled to a different status.
TerminalStates ==
  [][ \A o \in Orders :
        orders[o].status \in {"delivered", "cancelled"}
          => orders'[o].status = orders[o].status ]_vars


(* ============================ C15 ===================================== *)

\* Every line of order o has been taken from the stock exactly once.
AllDecremented(o) ==
  \A k \in 1..Len(orders[o].orderItems) : orders[o].decs[k] = 1

\* C15 - No half-applied checkout: a checkout that has been answered either
\* stored its order, took every line of it from the stock and cleared the
\* cart, or did none of the three; one answered 500 after a store failure
\* did none.
NoHalfAppliedCheckout ==
  \A r \in DOMAIN req :
    (IsCheckout(req[r]) /\ req[r].pc = "done")
    => /\ \/ OrdersOf(r, orders) = {} /\ req[r].fx = {}
          \/ /\ OrdersOf(r, orders) # {}
             /\ \A o \in OrdersOf(r, orders) : AllDecremented(o)
             /\ "cart" \in req[r].fx
       /\ req[r].resp.code = 500 => (OrdersOf(r, orders) = {} /\ req[r].fx = {})


(* ============================ C16 ===================================== *)

\* C16 - Order total invariant: every stored order has totalPrice =
\* itemsPrice + taxPrice + shippingPrice, and itemsPrice = the sum over its
\* lines of price x quantity, whatever price fields the client sent.
OrderTotalInvariant ==
  \A o \in Orders :
    LET pr == orders[o].prices IN
      /\ pr.totalPrice = pr.itemsPrice + pr.taxPrice + pr.shippingPrice
      /\ pr.itemsPrice = Hundredths(SumPrice(orders[o].orderItems))


(* ============================ C17 ===================================== *)

IsAdd(q) == q.kind \in {"add", "oldAdd"}

\* The (product, size) an add request names.
AddedKey(q) == <<q.body.productId, q.body.size>>

LinesFor(items, key) == { k \in 1..Len(items) : KeyOf(items[k]) = key }

RECURSIVE QtyFor(_, _)
QtyFor(items, key) ==
  IF items = <<>> THEN 0
  ELSE (IF KeyOf(items[1]) = key THEN items[1].quantity ELSE 0)
       + QtyFor(Tail(items), key)

RECURSIVE OtherLines(_, _)
OtherLines(items, key) ==
  IF items = <<>> THEN <<>>
  ELSE (IF KeyOf(items[1]) = key THEN <<>> ELSE <<items[1]>>)
       \o OtherLines(Tail(items), key)

\* Request r saves its cart in this step and answers 200.
Saves(r) ==
  req[r].pc = "save" /\ req'[r].pc = "done" /\ req'[r].resp.code = 200

NoTwoLinesWithOneKey(items) ==
  \A j, k \in 1..Len(items) : KeyOf(items[j]) = KeyOf(items[k]) => j = k

\* C17 - Cart merge law: every add of quantity q for (P, s) to a cart with
\* at most one line per key, the requests coming one after the other, leaves
\* exactly one line for (P, s), whose quantity is what the cart held for
\* (P, s) plus q (a, then a + b), and leaves every other line as it was.
CartMergeLaw ==
  [][ \A r \in DOMAIN req :
        ( /\ IsAdd(req[r]) /\ Saves(r)
          /\ NoTwoLinesWithOneKey(cart[req[r].user].items) )
        => LET key == AddedKey(req[r])
               old == cart[req[r].user].items
               new == cart'[req[r].user].items
           IN /\ Cardinality(LinesFor(new, key)) = 1
              /\ QtyFor(new, key) = QtyFor(old, key) + req[r].body.quantity
              /\ OtherLines(new, key) = OtherLines(old, key) ]_vars

(* ============================ C18 ===================================== *)

\* C18 - Cart deduplication under concurrency: however the adds of one user
\* interleave their read of the cart and their save, no stored cart holds two
\* lines with the same (product, size), and every add that is saved raises
\* the quantity stored for its key by the quantity it adds.
CartDeduplicated ==
  [][ /\ \A u \in Users : NoTwoLinesWithOneKey(cart'[u].items)
      /\ \A r \in DOMAIN req :
           (IsAdd(req[r]) /\ Saves(r))
           => QtyFor(cart'[req[r].user].items, AddedKey(req[r]))
                = QtyFor(cart[req[r].user].items, AddedKey(req[r]))
                  + req[r].body.quantity ]_vars

(* ============================ C19 ===================================== *)

\* The price the spec charges for p: the discounted price when there is
\* one, otherwise the list price.
CurrentPrice(p) ==
  IF price[p].discountPrice > 0 THEN price[p].discountPrice ELSE price[p].price

RECURSIVE QuantitySum(_)
QuantitySum(items) ==
  IF items = <<>> THEN 0 ELSE items[1].quantity + QuantitySum(Tail(items))

RECURSIVE PriceSum(_)
PriceSum(items) ==
  IF items = <<>> THEN 0
  ELSE items[1].quantity * CurrentPrice(items[1].product) + PriceSum(Tail(items))

IsCartRequest(q) == q.kind \in {"add", "oldAdd", "getCart"}

CartReadRecomputes ==
  [][ \A r \in DOMAIN req :
        ( /\ req[r].kind = "none" /\ req'[r].kind = "getCart"
          /\ req'[r].resp.code = 200 )
        => req'[r].body.doc.totalPrice = PriceSum(req'[r].body.doc.items) ]_vars

(* ============================ C21 ===================================== *)

\* C21: a user never has more than one Cart document, whatever the
\* interleaving of the requests that create one, and no step (checkout and
\* clear included) takes a user's Cart document away.
OneCartPerUser ==
  [][ \A u \in Users : /\ cart'[u].docs <= 1
                       /\ cart'[u].docs >= cart[u].docs
                       /\ cart[u].exists => cart'[u].exists ]_vars

\* Two first accesses of u1 have both found no cart and both saved: one
\* made the cart, the other was refused.
OneCartPerUserWitness ==
  /\ cart["u1"].docs = 1
  /\ \E r, q \in DOMAIN req :
       /\ r # q
       /\ req[r].kind = "add" /\ req[r].pc = "done" /\ req[r].resp.code = 200
       /\ req[q].kind = "getCart" /\ req[q].pc = "done" /\ req[q].resp.code = 500

(* ============================ C22 ===================================== *)

IsCatalogRead(q) == q.kind \in {"categories", "list", "product"}

\* C22: whatever the Redis connection does, a catalog read answers with
\* what the Product Store gives (200, or 404 for a product that is not
\* there), never with a failure.
CacheFailureIsAMiss ==
  \A r \in DOMAIN req :
    IsCatalogRead(req[r]) /\ req[r].pc = "done" => req[r].resp.code \in {200, 404}

(* ============================ C23 ===================================== *)

\* The products whose catalog-visible fields request q has changed.
ChangedBy(q, os) ==
  IF q.kind \in {"create", "update", "delete"} /\ "catalog" \in q.fx
    THEN {q.body.product}
  ELSE IF q.kind \in {"capture", "cod", "pay", "cancel"} /\ "stock" \in q.fx
            /\ q.order \in DOMAIN os
    THEN { os[q.order].orderItems[k].product : k \in DOMAIN os[q.order].orderItems }
  ELSE {}

\* C23: when a request that changed a product's catalog-visible fields
\* answers with success, the cache holds none of the keys that may contain
\* the product: product:<id>, the products list, product_categories.
InvalidateOnMutation ==
  [][ \A r \in DOMAIN req :
        /\ req[r].pc # "done" /\ req'[r].pc = "done"
        /\ req'[r].resp.code \in {200, 201}
        => \A p \in ChangedBy(req'[r], orders') :
             DOMAIN cache' \cap {ProductKey(p), ProductsKey, CategoriesKey} = {} ]_vars

(* ============================ C24 ===================================== *)

\* What the store gives, now, for the key of catalog read q.
StoreValue(q) ==
  IF q.kind = "categories" THEN { Category[p] : p \in Visible }
  ELSE IF q.kind = "list"
    THEN [products |-> { Snapshot(p) : p \in Visible },
          totalItems |-> Cardinality(Visible)]
  ELSE Snapshot(q.arg)

\* Every product creation has answered: its invalidation is complete.
MutationsComplete ==
  \A q \in DOMAIN req : req[q].kind = "create" => req[q].pc = "done"

\* C24: once every mutation and its invalidation are complete, a catalog
\* read that arrives and finds its key in the cache gets the value the
\* store holds, not one read from the store before the mutation.
NoStaleReadAfterInvalidation ==
  [][ \A r \in DOMAIN req :
        /\ MutationsComplete
        /\ req[r].kind = "none" /\ IsCatalogRead(req'[r]) /\ req'[r].body.hit
        => req'[r].body.value = StoreValue(req'[r]) ]_vars

(* ============================ C25 ===================================== *)

\* The response of catalog read q shows only what the products ps have.
ShowsOnly(q, ps) ==
  IF q.kind = "categories" THEN q.body.value \subseteq { Category[p] : p \in ps }
  ELSE IF q.kind = "list" THEN \A x \in q.body.value.products : x.id \in ps
  ELSE q.body.value.id \in ps

\* C25: a catalog read that answers 200 shows no product whose active flag
\* is false at that moment, from the cache or not; the soft delete of a
\* product leaves the orders as they are.
InactiveHidden ==
  [][ \A r \in DOMAIN req :
        /\ IsCatalogRead(req'[r]) /\ req[r].pc # "done" /\ req'[r].pc = "done"
             /\ req'[r].resp.code = 200
             => ShowsOnly(req'[r], { p \in listed' : active'[p] })
        /\ req[r].kind = "delete" => orders' = orders ]_vars

(* ============================ C26 ===================================== *)

\* Request r saves a status update in this step.
StatusSaved(r) == req[r].kind = "status" /\ req[r].pc = "save" /\ req'[r].pc = "done"

\* C26: a status update to delivered sets isDelivered and deliveredAt, a
\* status update to another value leaves both as they are, and an order
\* whose status is delivered has isDelivered = true.
DeliveredStamping ==
  [][ /\ \A o \in DOMAIN orders' :
           orders'[o].status = "delivered"
           => orders'[o].isDelivered /\ orders'[o].deliveredAt # 0
      /\ \A r \in DOMAIN req :
           StatusSaved(r) =>
             LET old == orders[req[r].order]
                 new == orders'[req[r].order]
             IN IF req[r].arg = "delivered"
                  THEN new.isDelivered /\ new.deliveredAt = Now(r)
                ELSE /\ new.isDelivered = old.isDelivered
                     /\ new.deliveredAt = old.deliveredAt ]_vars

\* An order was set to delivered by one request and then to shipped by a
\* later one: it is still stamped.
DeliveredStampingWitness ==
  /\ orders[1].status = "shipped" /\ orders[1].isDelivered
  /\ \E r, q \in DOMAIN req :
       /\ req[r].kind = "status" /\ req[r].arg = "delivered" /\ req[r].pc = "done"
       /\ req[q].kind = "status" /\ req[q].arg = "shipped" /\ req[q].pc = "done"
       /\ orders[1].deliveredAt = Now(r)

(* ============================ C27 ===================================== *)

\* C27: the client getRedis() returns to a handler, if any, is one whose
\* own last 'ready' / 'error' / 'end' event was 'ready'.
GetRedisReturnsReadyClient ==
  [][ \A r \in DOMAIN req :
        /\ req[r].kind = "none" /\ IsCatalogRead(req'[r])
        /\ req'[r].body.redis # Null
        => conn'[req'[r].body.redis].last = "ready" ]_vars

(* ============================ C28 ===================================== *)

\* C28: an order is paid only if a Razorpay signature check succeeded for
\* its payment, whatever requests its owner sends.
PaidImpliesVerified ==
  \A o \in DOMAIN orders : orders[o].isPaid => orders[o].verified

(* ============================ C29 ===================================== *)

\* C29: an account with LockAfter failed attempts has its lockUntil set,
\* also when failed logins interleave; a login that arrives while the
\* account is locked is answered 423, with the right password too, and
\* changes nothing in the account.
LoginLockout ==
  [][ /\ account'.loginAttempts >= LockAfter => account'.lockUntil # 0
      /\ \A r \in DOMAIN req :
           /\ req[r].kind = "none" /\ req'[r].kind = "login"
           /\ IsLocked(account, clock)
           => req'[r].resp.code = 423 /\ account' = account ]_vars

(* ============================ C30 ===================================== *)

\* C30: a saved user with addresses has exactly one default address.
SingleDefaultAddress ==
  account.addresses # <<>> => DefaultCount(account.addresses) = 1

====
